---- MODULE Spec2Model ----
(***************************************************************************)
(* A model of godynamo's data-access layer:                                *)
(*   - Client.ScanTableContinuous (internal/dynamo/client.go), the         *)
(*     time-boxed, resumable accumulation loop over paginated Scan calls;  *)
(*   - the session code that starts and resumes it (Model.scanTable,       *)
(*     Model.continueScan, Model.Update);                                  *)
(*   - DiscoverRegionsWithTables, the bounded fan-out over the regions.    *)
(***************************************************************************)
EXTENDS Integers, Sequences, FiniteSets, TLC

\* ------------------------------------------------------------------ bounds
\* Records held by the collection that is scanned.
NRec == 3
\* Invocations of ScanTableContinuous that may be running at once.
MaxInFlight == 1
\* Times the operator answers "continue" for one logical scan.
MaxResumes == 2
\* Entries of the region catalog AWSRegions that are probed (28 in the source).
NumRegions == 3
\* Capacity of the semaphore channel, make(chan struct{}, 10) in the source,
\* scaled down with the catalog so that probes do wait for a slot.
SemCap == 2
\* Table names one listing may return (Limit 100 in the source).
MaxTables == 1
\* Conditions of a FilterBuilder.
MaxConds == 2
\* Closures the program loop may have running when the operator does not
\* wait for a read to end before pressing the next key.
MaxOverlap == 2
\* Calls of BuildExpression on one FilterBuilder.
MaxBuilds == 2

\* ------------------------------------------------------- program constants
\* batchSize := int32(500): the Limit of every page request of a continuous scan.
batchSize == 500

\* A nil key map (map[string]types.AttributeValue(nil)). A non-nil key is the
\* position (1..NRec) of the record it names; a nil ExclusiveStartKey starts
\* the read before record 1.
Nil == 0

Min(a, b) == IF a < b THEN a ELSE b

\* The filter expressions used: "" (none) and one non-empty expression.
NoFilter == ""
Filters == {NoFilter, "F"}

Cmds == 1 .. MaxInFlight
Keys == 0 .. NRec
Targets == 0 .. (NRec + 1)

VARIABLES
    store,   \* the collection and how the store pages it (fixed over a behaviour)
    ex,      \* ex[i]: the locals of the i-th running ScanTableContinuous call
    caller,  \* the direct caller of ScanTableContinuous: what it keeps between calls
    m,       \* the fields of the session's Model (package app)
    cmd,     \* cmd[i]: the tea.Cmd closure that runs call i, and its message
    disc,    \* DiscoverRegionsWithTables: its goroutines and what they share
    fb       \* a FilterBuilder (package ui) and what BuildExpression returned

vars == <<store, ex, caller, m, cmd, disc, fb>>

\* ------------------------------------------------------------------- store
\* ext[c]: how many records one page read examines when it starts after
\* position c (the store stops a page at the Limit or at its size cap);
\* match: the records the non-empty filter keeps; lekAtEnd: whether the page
\* that examines the last record still returns a LastEvaluatedKey (the store
\* does when the page stopped at a limit, and the next page is then empty).
Stores ==
    { s \in [ext : [0 .. NRec - 1 -> 1 .. NRec],
             match : SUBSET (1 .. NRec),
             lekAtEnd : BOOLEAN] :
        \A c \in 0 .. NRec - 1 : s.ext[c] <= NRec - c }

\* The positions from..to as a sequence, in store order.
Range(from, to) == [k \in 1 .. (IF to >= from THEN to - from + 1 ELSE 0) |-> from + k - 1]

Matches(filter, r) == filter = NoFilter \/ r \in store.match

\* c.db.Scan(ctx, input) when it succeeds: the page read after `key` with the
\* given Limit and FilterExpression. ExclusiveStartKey and Limit repeat the
\* request, for the history of the call.
ScanPage(key, limit, filter) ==
    LET n == IF key >= NRec THEN 0 ELSE Min(store.ext[key], limit)
        last == key + n
    IN  [Items |-> SelectSeq(Range(key + 1, last), LAMBDA r : Matches(filter, r)),
         ScannedCount |-> n,
         ExclusiveStartKey |-> key,
         Limit |-> limit,
         LastEvaluatedKey |-> IF last >= NRec /\ (n = 0 \/ ~store.lekAtEnd)
                              THEN Nil ELSE last]

\* ---------------------------------------------------- ScanTableContinuous
NoResult == [isErr |-> FALSE, Items |-> <<>>, LastEvaluatedKey |-> Nil,
             TotalScanned |-> 0, HasMore |-> FALSE, TimedOut |-> FALSE]

\* return nil, fmt.Errorf("failed to scan table: %w", err)
ErrResult == [NoResult EXCEPT !.isErr = TRUE]

\* The locals of a call that has not started.
IdleExec == [pc |-> "idle", targetCount |-> 0, startKey |-> Nil, filter |-> NoFilter,
             allItems |-> <<>>, lastKey |-> Nil, totalScanned |-> 0,
             ctxDone |-> FALSE, result |-> NoResult,
             pages |-> <<>>, firedAt |-> "none", firedPages |-> 0, failed |-> FALSE]

\* Entry of ScanTableContinuous: allItems = nil, lastKey = startKey,
\* totalScanned = 0, under a fresh context. `pages` (the pages applied),
\* `firedAt` and `firedPages` (where the call was, and how many pages it had
\* applied, when its context ended) and `failed` (a read returned an error)
\* record the history of the call.
StartExec(targetCount, startKey, filter) ==
    [IdleExec EXCEPT !.pc = "check", !.targetCount = targetCount,
                     !.startKey = startKey, !.filter = filter, !.lastKey = startKey]

\* A variant that hands back the cursor the call started from.
TimeoutResultFromStart(e) ==
    [isErr |-> FALSE, Items |-> e.allItems, LastEvaluatedKey |-> e.startKey,
     TotalScanned |-> e.totalScanned, HasMore |-> e.startKey # Nil, TimedOut |-> TRUE]

\* The result returned when ctx.Done() is observed at the top of the loop.
TimeoutResult(e) ==
    [isErr |-> FALSE, Items |-> e.allItems, LastEvaluatedKey |-> e.lastKey,
     TotalScanned |-> e.totalScanned, HasMore |-> e.lastKey # Nil, TimedOut |-> TRUE]

\* The result returned when Scan failed and ctx.Err() != nil.
AbortResult(e) ==
    [isErr |-> FALSE, Items |-> e.allItems, LastEvaluatedKey |-> e.lastKey,
     TotalScanned |-> e.totalScanned, HasMore |-> TRUE, TimedOut |-> TRUE]

\* The result returned after the loop.
FinalResult(e) ==
    [isErr |-> FALSE, Items |-> e.allItems, LastEvaluatedKey |-> e.lastKey,
     TotalScanned |-> e.totalScanned, HasMore |-> e.lastKey # Nil, TimedOut |-> FALSE]

\* Variants of the break condition: a strict comparison, and one that
\* ignores the item count.
StopLoopStrict(count, targetCount, lastKey) == count > targetCount \/ lastKey = Nil

StopLoopAtEndOnly(count, targetCount, lastKey) == lastKey = Nil

\* if len(allItems) >= targetCount || lastKey == nil { break }
StopLoop(count, targetCount, lastKey) == count >= targetCount \/ lastKey = Nil

\* Variants of applying a page: one that keeps the old cursor (a torn page),
\* and one that overwrites the accumulator instead of appending to it.
ApplyPageTorn(e, page) ==
    [e EXCEPT !.allItems = e.allItems \o page.Items,
              !.totalScanned = e.totalScanned + page.ScannedCount,
              !.pages = Append(e.pages, [from |-> e.lastKey, page |-> page])]

ApplyPageOverwrite(e, page) ==
    [e EXCEPT !.allItems = page.Items,
              !.totalScanned = e.totalScanned + page.ScannedCount,
              !.lastKey = page.LastEvaluatedKey,
              !.pages = Append(e.pages, [from |-> e.lastKey, page |-> page])]

\* allItems = append(allItems, output.Items...); totalScanned += ScannedCount;
\* lastKey = output.LastEvaluatedKey
ApplyPage(e, page) ==
    [e EXCEPT !.allItems = e.allItems \o page.Items,
              !.totalScanned = e.totalScanned + page.ScannedCount,
              !.lastKey = page.LastEvaluatedKey,
              !.pages = Append(e.pages, [from |-> e.lastKey, page |-> page])]

\* select { case <-ctx.Done(): return ...; default: } and the page request
\* that follows when the context is still live.
ExecCheck(e) ==
    IF e.ctxDone
    THEN [e EXCEPT !.pc = "done", !.result = TimeoutResult(e)]
    ELSE [e EXCEPT !.pc = "read"]

\* A variant whose every request starts again from the caller's cursor.
ExecReadOkFromStart(e) ==
    LET a == ApplyPage(e, ScanPage(e.startKey, batchSize, e.filter))
    IN  IF StopLoop(Len(a.allItems), a.targetCount, a.lastKey)
        THEN [a EXCEPT !.pc = "done", !.result = FinalResult(a)]
        ELSE [a EXCEPT !.pc = "check"]

\* Scan returned a page: apply it, then break or loop.
ExecReadOk(e) ==
    LET a == ApplyPage(e, ScanPage(e.lastKey, batchSize, e.filter))
    IN  IF StopLoop(Len(a.allItems), a.targetCount, a.lastKey)
        THEN [a EXCEPT !.pc = "done", !.result = FinalResult(a)]
        ELSE [a EXCEPT !.pc = "check"]

\* Scan returned an error (a store failure, or the request given up because
\* the context ended).
ExecReadFail(e) == [e EXCEPT !.pc = "err", !.failed = TRUE]

\* A variant that hands back the partial accumulation after any failed read.
ExecCheckErrPartial(e) == [e EXCEPT !.pc = "done", !.result = AbortResult(e)]

\* if err != nil { if ctx.Err() != nil { return partial } return nil, err }
ExecCheckErr(e) ==
    IF e.ctxDone
    THEN [e EXCEPT !.pc = "done", !.result = AbortResult(e)]
    ELSE [e EXCEPT !.pc = "done", !.result = ErrResult]

\* The deadline of the call's context passes, or its cancel function runs.
ExecCtxDone(e) ==
    [e EXCEPT !.ctxDone = TRUE, !.firedAt = e.pc, !.firedPages = Len(e.pages)]

Running(e) == e.pc \in {"check", "read", "err"}

\* The result of a call that nothing disturbs: the loop of ScanTableContinuous
\* run to its end.
RECURSIVE RunToEnd(_)
RunToEnd(e) ==
    IF e.pc = "done" THEN e.result
    ELSE IF e.pc = "check" THEN RunToEnd(ExecCheck(e))
    ELSE RunToEnd(ExecReadOk(e))

Run(targetCount, startKey, filter) == RunToEnd(StartExec(targetCount, startKey, filter))

\* -------------------------------------------------------------- actions
ScanCheck(i) ==
    /\ ex[i].pc = "check"
    /\ ex' = [ex EXCEPT ![i] = ExecCheck(ex[i])]
    /\ UNCHANGED <<store, caller, m, cmd, disc, fb>>

ScanReadOk(i) ==
    /\ ex[i].pc = "read"
    /\ ex' = [ex EXCEPT ![i] = ExecReadOk(ex[i])]
    /\ UNCHANGED <<store, caller, m, cmd, disc, fb>>

ScanReadFail(i) ==
    /\ ex[i].pc = "read"
    /\ ex' = [ex EXCEPT ![i] = ExecReadFail(ex[i])]
    /\ UNCHANGED <<store, caller, m, cmd, disc, fb>>

ScanCheckErr(i) ==
    /\ ex[i].pc = "err"
    /\ ex' = [ex EXCEPT ![i] = ExecCheckErr(ex[i])]
    /\ UNCHANGED <<store, caller, m, cmd, disc, fb>>

CtxDone(i) ==
    /\ Running(ex[i])
    /\ ~ex[i].ctxDone
    /\ ex' = [ex EXCEPT ![i] = ExecCtxDone(ex[i])]
    /\ UNCHANGED <<store, caller, m, cmd, disc, fb>>

\* ------------------------------------------------- a direct caller (run)
\* The caller of a run(cursor, target): one call from the nil cursor and,
\* when it stopped at a timeout, a second call from the returned cursor whose
\* items the caller appends to the first call's.
NoCaller == [stage |-> "none", first |-> NoResult, target1 |-> 0, target2 |-> 0]

\* A variant that keeps only the items of the resuming call.
ConcatNewOnly(old, new) == new

\* allItems = append(allItems, m.items...); allItems = append(allItems, result.Items...)
Concat(old, new) == old \o new

Resume ==
    /\ caller.stage = "run1"
    /\ ex[1].pc = "done"
    /\ ~ex[1].result.isErr
    /\ ex[1].result.TimedOut
    /\ \E t \in Targets :
         /\ caller' = [caller EXCEPT !.stage = "run2", !.first = ex[1].result,
                                     !.target2 = t]
         /\ ex' = [ex EXCEPT ![1] = StartExec(t, ex[1].result.LastEvaluatedKey,
                                              ex[1].filter)]
    /\ UNCHANGED <<store, m, cmd, disc, fb>>

\* ------------------------------------------------------------ the session
\* pageSize: 500 in New().
defaultPageSize == 500
\* context.WithTimeout(context.Background(), 3*time.Minute): the deadline of a
\* filtered scan started by scanTable, in minutes.
scanTimeoutMinutes == 3

NoStatus == [text |-> "", found |-> 0, scanned |-> 0, timedOut |-> FALSE, hasMore |-> FALSE]

\* What is recorded of a read a closure makes: the table, the kind (scan,
\* query or describe), the filter and start cursor it passes, the table whose
\* schema its planning consulted ("nil" for none), and for a non-nil start
\* cursor the table, kind and filter of the read that returned it.
NoRead ==
    [table |-> "", kind |-> "none", filter |-> NoFilter, startKey |-> Nil,
     schema |-> "nil", cursorOf |-> <<>>]

\* The Model before a table is opened. `total` and `resumes` follow the
\* logical scan whose cursor and counters are stored: the ScannedCount of
\* every page read for it over all its invocations, and how many times it
\* was resumed. tableInfo is "nil" or the name of the table whose schema it
\* holds; `shown` is the read whose rows and cursor the model holds.
IdleModel ==
    [view |-> "viewTables", loading |-> FALSE, err |-> FALSE, statusMsg |-> NoStatus,
     currentTable |-> "",
     tableInfo |-> "nil", items |-> <<>>, lastKey |-> Nil, pageSize |-> defaultPageSize,
     filterExpr |-> NoFilter,
     scanTotalScanned |-> 0, scanItemsFound |-> 0, scanLastKey |-> Nil,
     total |-> 0, resumes |-> 0, shown |-> NoRead]

NoMsg == [type |-> "none", result |-> NoResult]

\* A closure that was not started. `prior` and `resumes` are the history of
\* the logical scan the closure continues: the ScannedCount of the pages
\* read by its earlier invocations, and their number.
IdleCmd == [stage |-> "idle", kind |-> "none", items |-> <<>>, scanTotalScanned |-> 0,
            msg |-> NoMsg, prior |-> 0, resumes |-> 0, read |-> NoRead]

Free(i) == cmd[i].stage = "idle"

\* The sum of the ScannedCount of the pages a call applied.
RECURSIVE SumScanned(_)
SumScanned(pages) ==
    IF pages = <<>> THEN 0
    ELSE pages[1].page.ScannedCount + SumScanned(Tail(pages))

\* Model.scanTable with a non-empty filter and no key lookup planned: the
\* closure calls ScanTableContinuous(ctx, table, int(m.pageSize), nil, filter).
ScanTableCall(mm) == StartExec(mm.pageSize, Nil, mm.filterExpr)

\* Model.scanTable: a key lookup needs the schema and a filter (line 1262);
\* without a filter the closure issues one plain ScanTable page.
PlansKeyLookup(mm) == mm.tableInfo # "nil" /\ mm.filterExpr # NoFilter

\* Model.continueScan: targetCount := m.scanItemsFound + int(m.pageSize),
\* from m.scanLastKey with the same filter.
ContinueScanCall(mm) ==
    StartExec(mm.scanItemsFound + mm.pageSize, mm.scanLastKey, mm.filterExpr)

\* A variant whose total counts only the resuming call.
CombinedResultLastCall(c, result) ==
    [isErr |-> FALSE,
     Items |-> Concat(c.items, result.Items),
     LastEvaluatedKey |-> result.LastEvaluatedKey,
     TotalScanned |-> result.TotalScanned,
     HasMore |-> result.HasMore,
     TimedOut |-> result.TimedOut]

\* Model.continueScan, after the call returned a result: the combined result.
CombinedResult(c, result) ==
    [isErr |-> FALSE,
     Items |-> Concat(c.items, result.Items),
     LastEvaluatedKey |-> result.LastEvaluatedKey,
     TotalScanned |-> c.scanTotalScanned + result.TotalScanned,
     HasMore |-> result.HasMore,
     TimedOut |-> result.TimedOut]

\* The message a closure returns once ScanTableContinuous has returned.
CmdMessage(c, result) ==
    IF result.isErr THEN [type |-> "errMsg", result |-> NoResult]
    ELSE IF c.kind = "continueScan"
         THEN [type |-> "continuousScanMsg", result |-> CombinedResult(c, result)]
         ELSE [type |-> "continuousScanMsg", result |-> result]

\* Model.handleContinuousScanResult
handleContinuousScanResult(mm, result) ==
    [mm EXCEPT !.items = result.Items,
               !.lastKey = result.LastEvaluatedKey,
               !.loading = FALSE,
               !.statusMsg = [text |-> "Found", found |-> Len(result.Items),
                              scanned |-> result.TotalScanned,
                              timedOut |-> result.TimedOut, hasMore |-> result.HasMore]]

\* Model.Update, case continuousScanMsg
UpdateContinuousScanMsg(mm, result) ==
    LET h == handleContinuousScanResult(mm, result)
    IN  IF result.TimedOut /\ result.HasMore
        THEN [h EXCEPT !.scanLastKey = result.LastEvaluatedKey,
                       !.scanTotalScanned = result.TotalScanned,
                       !.scanItemsFound = Len(result.Items),
                       !.view = "viewConfirmContinueScan"]
        ELSE h

\* Model.handleQueryResult
handleQueryResult(mm, result) ==
    [mm EXCEPT !.items = result.Items,
               !.lastKey = result.LastEvaluatedKey,
               !.loading = FALSE,
               !.statusMsg = [NoStatus EXCEPT !.text = "Query returned",
                                              !.found = result.Count]]

\* Model.handleScanResult
handleScanResult(mm, result) ==
    [mm EXCEPT !.items = result.Items,
               !.lastKey = result.LastEvaluatedKey,
               !.loading = FALSE,
               !.statusMsg = [NoStatus EXCEPT !.text = "Loaded", !.found = result.Count]]

\* Model.Update, case errMsg
UpdateErrMsg(mm) ==
    [mm EXCEPT !.err = TRUE, !.loading = FALSE,
               !.statusMsg = [NoStatus EXCEPT !.text = "Error"]]

\* Model.Update hands every message to the view's own handler while the
\* filter view or an item editor is shown; those handlers have no case for
\* the message of a read.
Forwarded(mm) == mm.view \in {"viewQuery", "viewCreateItem", "viewEditItem"}

\* Model.Update
Update(mm, msg) ==
    IF Forwarded(mm) THEN mm
    ELSE IF msg.type = "errMsg" THEN UpdateErrMsg(mm)
    ELSE IF msg.type = "continuousScanMsg" THEN UpdateContinuousScanMsg(mm, msg.result)
    ELSE IF msg.type = "queryResultMsg" THEN handleQueryResult(mm, msg.result)
    ELSE IF msg.type = "scanResultMsg" THEN handleScanResult(mm, msg.result)
    ELSE IF msg.type = "tableInfoMsg"
         THEN [mm EXCEPT !.tableInfo = msg.result.info, !.loading = FALSE]
    ELSE mm

\* The closure's last step: ScanTableContinuous has returned, the closure
\* returns its message.
CmdReturn(i) ==
    /\ cmd[i].stage = "running"
    /\ ex[i].pc = "done"
    /\ cmd' = [cmd EXCEPT ![i] = [@ EXCEPT !.stage = "sent",
                                           !.msg = CmdMessage(cmd[i], ex[i].result)]]
    /\ UNCHANGED <<store, ex, caller, m, disc, fb>>

\* The program loop hands the closure's message to Model.Update. When the
\* message replaces the stored cursor and counters, they now belong to the
\* logical scan of the closure; when it replaces the rows, the rows are those
\* of the closure's read.
Deliver(i) ==
    /\ cmd[i].stage = "sent"
    /\ LET u == Update(m, cmd[i].msg)
           r == cmd[i].msg.result
           v == IF ~Forwarded(m)
                   /\ cmd[i].msg.type \in {"scanResultMsg", "continuousScanMsg",
                                            "queryResultMsg"}
                THEN [u EXCEPT !.shown = cmd[i].read]
                ELSE u
       IN  m' = IF ~Forwarded(m) /\ cmd[i].msg.type = "continuousScanMsg"
                   /\ r.TimedOut /\ r.HasMore
                THEN [v EXCEPT !.total = cmd[i].prior + SumScanned(ex[i].pages),
                               !.resumes = cmd[i].resumes]
                ELSE v
    /\ cmd' = [cmd EXCEPT ![i] = IdleCmd]
    /\ ex' = [ex EXCEPT ![i] = IdleExec]
    /\ UNCHANGED <<store, caller, disc, fb>>

\* Model.updateTableData, key "r": m.lastKey = nil; return m, m.scanTable()
KeyRefresh(i) ==
    /\ m.view = "viewTableData"
    /\ Free(i)
    /\ m.filterExpr # NoFilter
    /\ ~PlansKeyLookup(m)
    /\ m' = [m EXCEPT !.lastKey = Nil]
    /\ ex' = [ex EXCEPT ![i] = ScanTableCall(m')]
    /\ cmd' = [cmd EXCEPT ![i] = [IdleCmd EXCEPT !.stage = "running", !.kind = "scanTable"]]
    /\ UNCHANGED <<store, caller, disc, fb>>

\* Model.updateTableData, keys "+", "=": if m.pageSize < 1000 the page size
\* grows by 100 and the status line reports it.
KeyPageSizeUp ==
    /\ m.view = "viewTableData"
    /\ m.pageSize < 1000
    /\ m' = [m EXCEPT !.pageSize = @ + 100,
                      !.statusMsg = [NoStatus EXCEPT !.text = "Page size"]]
    /\ UNCHANGED <<store, ex, caller, cmd, disc, fb>>

\* Model.updateTableData, keys "-", "_": if m.pageSize > 50 the page size
\* shrinks by 100, and is set to 50 when that falls below 50.
KeyPageSizeDown ==
    /\ m.view = "viewTableData"
    /\ m.pageSize > 50
    /\ m' = [m EXCEPT !.pageSize = IF @ - 100 < 50 THEN 50 ELSE @ - 100,
                      !.statusMsg = [NoStatus EXCEPT !.text = "Page size"]]
    /\ UNCHANGED <<store, ex, caller, cmd, disc, fb>>

\* Model.updateConfirmContinueScan, keys "y", "Y"
KeyContinueYes(i) ==
    /\ m.view = "viewConfirmContinueScan"
    /\ Free(i)
    /\ m.resumes < MaxResumes
    /\ m' = [m EXCEPT !.view = "viewTableData", !.loading = TRUE,
                      !.statusMsg = [NoStatus EXCEPT !.text = "Continuing scan..."]]
    /\ ex' = [ex EXCEPT ![i] = ContinueScanCall(m')]
    /\ cmd' = [cmd EXCEPT ![i] = [IdleCmd EXCEPT !.stage = "running",
                                                 !.kind = "continueScan",
                                                 !.items = m.items,
                                                 !.scanTotalScanned = m.scanTotalScanned,
                                                 !.prior = m.total,
                                                 !.resumes = m.resumes + 1]]
    /\ UNCHANGED <<store, caller, disc, fb>>

\* Model.updateConfirmContinueScan, keys "n", "N", "esc"
KeyContinueNo ==
    /\ m.view = "viewConfirmContinueScan"
    /\ m' = [m EXCEPT !.view = "viewTableData",
                      !.statusMsg = [text |-> "Scan stopped", found |-> m.scanItemsFound,
                                     scanned |-> m.scanTotalScanned,
                                     timedOut |-> FALSE, hasMore |-> FALSE]]
    /\ UNCHANGED <<store, ex, caller, cmd, disc, fb>>

\* ---------------------------------------------- DiscoverRegionsWithTables
\* The catalog: AWSRegions[1], .., AWSRegions[NumRegions].
Regions == 1 .. NumRegions

\* The call before its loop: no goroutine launched, results == nil, the
\* mutex free (mu = 0), the semaphore channel empty, the wait group at 0.
\* probe[r].pc is the position of the goroutine launched for region r,
\* probe[r].tables the length of the listing it received, probe[r].outcome
\* how its two calls ended, probe[r].seen the slice header its append has
\* read; launched[r] counts the goroutines started for r. `returned` and
\* `err` are the two values the call returns.
IdleProbe == [pc |-> "none", tables |-> 0, outcome |-> "none", seen |-> <<>>]

\* What the session holds of a discovery before its message arrives
\* (Model.updateConnect: loading, m.err = nil, "Scanning regions..."); region
\* 0 is the empty region name, connectTo the region of the connectToRegion
\* command Update returned.
NoDiscovery ==
    [handled |-> FALSE, loading |-> TRUE, err |-> "nil", statusMsg |-> "Scanning regions...",
     discoveredRegions |-> <<>>, selectedRegion |-> 0, connectTo |-> 0]

IdleDisc ==
    [main |-> "idle", next |-> 1,
     probe |-> [r \in Regions |-> IdleProbe],
     launched |-> [r \in Regions |-> 0],
     sem |-> 0, mu |-> 0, wg |-> 0,
     results |-> <<>>, returned |-> <<>>, err |-> "none",
     session |-> NoDiscovery]

\* A variant of the send that never blocks.
CanSendAlways(n) == TRUE

\* sem <- struct{}{} can proceed: the channel holds fewer than its capacity.
CanSend(n) == n < SemCap

\* The listing of region r with n names: tables.TableNames.
TableNames(r, n) == [k \in 1 .. n |-> <<r, k>>]

\* RegionInfo{Region: r, TableCount: len(tables.TableNames), Tables: tables.TableNames}
RegionInfo(r, names) == [Region |-> r, TableCount |-> Len(names), Tables |-> names]

\* A variant of the lock that never blocks.
CanLockAlways(holder) == TRUE

\* mu.Lock() can proceed: no goroutine holds the mutex.
CanLock(holder) == holder = 0

OtherVars == <<store, ex, caller, m, cmd, fb>>

\* for _, region := range AWSRegions { wg.Add(1); go func(r string) {...}(region) }
Launch ==
    /\ disc.main = "loop"
    /\ disc.next <= NumRegions
    /\ disc' = [disc EXCEPT !.wg = @ + 1,
                            !.probe[disc.next].pc = "acquire",
                            !.launched[disc.next] = @ + 1,
                            !.next = @ + 1]
    /\ UNCHANGED OtherVars

\* The range loop is over: the caller reaches wg.Wait().
LoopEnd ==
    /\ disc.main = "loop"
    /\ disc.next > NumRegions
    /\ disc' = [disc EXCEPT !.main = "wait"]
    /\ UNCHANGED OtherVars

\* sem <- struct{}{}
Acquire(r) ==
    /\ disc.probe[r].pc = "acquire"
    /\ CanSend(disc.sem)
    /\ disc' = [disc EXCEPT !.sem = @ + 1, !.probe[r].pc = "config"]
    /\ UNCHANGED OtherVars

\* cfg, err := config.LoadDefaultConfig(ctx, config.WithRegion(r)); on an
\* error the goroutine returns and its deferred calls run.
LoadConfig(r) ==
    /\ disc.probe[r].pc = "config"
    /\ \E ok \in BOOLEAN :
         disc' = [disc EXCEPT !.probe[r].pc = IF ok THEN "list" ELSE "release",
                              !.probe[r].outcome = IF ok THEN @ ELSE "configError"]
    /\ UNCHANGED OtherVars

\* A variant in which a failed listing skips the deferred receive from sem.
ListFailKeepsSlot(r) ==
    /\ disc.probe[r].pc = "list"
    /\ disc' = [disc EXCEPT !.probe[r].pc = "wgdone", !.probe[r].outcome = "listError"]
    /\ UNCHANGED OtherVars

\* tables, err := client.ListTables(...) failed: return.
ListFail(r) ==
    /\ disc.probe[r].pc = "list"
    /\ disc' = [disc EXCEPT !.probe[r].pc = "release", !.probe[r].outcome = "listError"]
    /\ UNCHANGED OtherVars

\* ListTables returned n names; if len(tables.TableNames) > 0 the goroutine
\* goes on to mu.Lock(), else it returns.
ListOk(r) ==
    /\ disc.probe[r].pc = "list"
    /\ \E n \in 0 .. MaxTables :
         disc' = [disc EXCEPT !.probe[r] = [@ EXCEPT !.pc = IF n > 0 THEN "lock" ELSE "release",
                                                     !.tables = n, !.outcome = "listed"]]
    /\ UNCHANGED OtherVars

\* mu.Lock()
Lock(r) ==
    /\ disc.probe[r].pc = "lock"
    /\ CanLock(disc.mu)
    /\ disc' = [disc EXCEPT !.mu = r, !.probe[r].pc = "append"]
    /\ UNCHANGED OtherVars

\* results = append(results, ...): the append reads the slice results ...
ReadResults(r) ==
    /\ disc.probe[r].pc = "append"
    /\ disc' = [disc EXCEPT !.probe[r].seen = disc.results, !.probe[r].pc = "store"]
    /\ UNCHANGED OtherVars

\* ... and the assignment stores the slice it read, one RegionInfo longer.
AppendResult(r) ==
    /\ disc.probe[r].pc = "store"
    /\ disc' = [disc EXCEPT !.results = Append(disc.probe[r].seen,
                                               RegionInfo(r, TableNames(r, disc.probe[r].tables))),
                            !.probe[r].seen = <<>>,
                            !.probe[r].pc = "unlock"]
    /\ UNCHANGED OtherVars

\* mu.Unlock()
Unlock(r) ==
    /\ disc.probe[r].pc = "unlock"
    /\ disc' = [disc EXCEPT !.mu = 0, !.probe[r].pc = "release"]
    /\ UNCHANGED OtherVars

\* defer func() { <-sem }()
Release(r) ==
    /\ disc.probe[r].pc = "release"
    /\ disc' = [disc EXCEPT !.sem = @ - 1, !.probe[r].pc = "wgdone"]
    /\ UNCHANGED OtherVars

\* defer wg.Done()
WgDone(r) ==
    /\ disc.probe[r].pc = "wgdone"
    /\ disc' = [disc EXCEPT !.wg = @ - 1, !.probe[r].pc = "done"]
    /\ UNCHANGED OtherVars

\* A variant that returns as soon as one region was found, without the join.
WaitReturnEarly ==
    /\ disc.main = "wait"
    /\ disc.results # <<>>
    /\ disc' = [disc EXCEPT !.main = "returned", !.returned = disc.results, !.err = "nil"]
    /\ UNCHANGED OtherVars

\* wg.Wait(); return results, nil
WaitReturn ==
    /\ disc.main = "wait"
    /\ disc.wg = 0
    /\ disc' = [disc EXCEPT !.main = "returned", !.returned = disc.results, !.err = "nil"]
    /\ UNCHANGED OtherVars

\* A variant of the handler below that also reports a single region as none.
RegionsDiscoveredNeedsTwo(sess, regions) ==
    IF Len(regions) <= 1
    THEN [sess EXCEPT !.handled = TRUE, !.loading = FALSE, !.discoveredRegions = regions,
                      !.statusMsg = "No regions with tables found",
                      !.err = "no DynamoDB tables found in any region"]
    ELSE [sess EXCEPT !.handled = TRUE, !.loading = FALSE, !.discoveredRegions = regions,
                      !.selectedRegion = regions[1].Region,
                      !.statusMsg = "Found regions with tables",
                      !.connectTo = regions[1].Region]

\* Model.Update, case regionsDiscoveredMsg
RegionsDiscovered(sess, regions) ==
    IF Len(regions) = 0
    THEN [sess EXCEPT !.handled = TRUE, !.loading = FALSE, !.discoveredRegions = regions,
                      !.statusMsg = "No regions with tables found",
                      !.err = "no DynamoDB tables found in any region"]
    ELSE [sess EXCEPT !.handled = TRUE, !.loading = FALSE, !.discoveredRegions = regions,
                      !.selectedRegion = regions[1].Region,
                      !.statusMsg = "Found regions with tables",
                      !.connectTo = regions[1].Region]

\* The closure of Model.discoverRegions returns regionsDiscoveredMsg (the
\* call's error is nil) and the program loop hands it to Model.Update.
UpdateRegionsDiscovered ==
    /\ disc.main = "returned"
    /\ disc.err = "nil"
    /\ ~disc.session.handled
    /\ disc' = [disc EXCEPT !.session = RegionsDiscovered(disc.session, disc.returned)]
    /\ UNCHANGED OtherVars

\* ------------------------------------------------------------- strings
\* A Go string is the sequence of its characters.
Digits == <<"0", "1", "2", "3", "4", "5", "6", "7", "8", "9">>
UpperCase == <<"A", "B", "C", "D", "E", "F", "G", "H", "I", "J", "K", "L", "M", "N", "O", "P", "Q", "R", "S", "T", "U", "V", "W", "X", "Y", "Z">>
LowerCase == <<"a", "b", "c", "d", "e", "f", "g", "h", "i", "j", "k", "l", "m", "n", "o", "p", "q", "r", "s", "t", "u", "v", "w", "x", "y", "z">>

IsDigit(c) == \E d \in 1 .. Len(Digits) : Digits[d] = c
DigitValue(c) == (CHOOSE d \in 1 .. Len(Digits) : Digits[d] = c) - 1

\* strings.TrimSpace
RECURSIVE TrimLeft(_)
TrimLeft(s) == IF s # <<>> /\ Head(s) = " " THEN TrimLeft(Tail(s)) ELSE s

RECURSIVE TrimRight(_)
TrimRight(s) ==
    IF s # <<>> /\ s[Len(s)] = " " THEN TrimRight(SubSeq(s, 1, Len(s) - 1)) ELSE s

TrimSpace(s) == TrimRight(TrimLeft(s))

\* strings.ToLower
ToLowerChar(c) ==
    IF \E k \in 1 .. Len(UpperCase) : UpperCase[k] = c
    THEN LowerCase[CHOOSE k \in 1 .. Len(UpperCase) : UpperCase[k] = c]
    ELSE c

ToLower(s) == [k \in 1 .. Len(s) |-> ToLowerChar(s[k])]

\* strings.HasPrefix
HasPrefix(s, prefix) == Len(prefix) <= Len(s) /\ SubSeq(s, 1, Len(prefix)) = prefix

\* The positions at which sub occurs in s; strings.Contains.
Occurrences(s, sub) ==
    {k \in 1 .. Len(s) - Len(sub) + 1 : SubSeq(s, k, k + Len(sub) - 1) = sub}

Contains(s, sub) == sub = <<>> \/ Occurrences(s, sub) # {}

\* A variant that joins without the separator.
RECURSIVE JoinBare(_, _)
JoinBare(elems, sep) == IF elems = <<>> THEN <<>> ELSE elems[1] \o JoinBare(Tail(elems), sep)

\* strings.Join
RECURSIVE Join(_, _)
Join(elems, sep) ==
    IF elems = <<>> THEN <<>>
    ELSE IF Len(elems) = 1 THEN elems[1]
    ELSE elems[1] \o sep \o Join(Tail(elems), sep)

\* fmt.Sprintf("%d", n) for n >= 0
RECURSIVE Itoa(_)
Itoa(n) == IF n < 10 THEN <<Digits[n + 1]>> ELSE Itoa(n \div 10) \o <<Digits[(n % 10) + 1]>>

\* The number a string of decimal digits denotes.
RECURSIVE Atoi(_)
Atoi(s) ==
    IF s = <<>> THEN 0 ELSE 10 * Atoi(SubSeq(s, 1, Len(s) - 1)) + DigitValue(s[Len(s)])

\* -------------------------------------------------- FilterBuilder (ui)
\* FilterOperator: the iota constants of filter.go.
OpEquals == 0
OpNotEquals == 1
OpGreaterThan == 2
OpLessThan == 3
OpGreaterOrEqual == 4
OpLessOrEqual == 5
OpContains == 6
OpNotContains == 7
OpBeginsWith == 8
OpExists == 9
OpNotExists == 10

FilterOperators ==
    {OpEquals, OpNotEquals, OpGreaterThan, OpLessThan, OpGreaterOrEqual, OpLessOrEqual,
     OpContains, OpNotContains, OpBeginsWith, OpExists, OpNotExists}

\* A value of type interface{} as parseValue and BuildExpression produce it:
\* a float64 (num, or one of the special values NaN, +Inf, -Inf), a bool,
\* nil, or a string.
NumberValue(n) == [kind |-> "number", num |-> n, special |-> "", bool |-> FALSE, str |-> <<>>]
SpecialValue(name) == [NumberValue(0) EXCEPT !.special = name]
BoolValue(b) == [kind |-> "bool", num |-> 0, special |-> "", bool |-> b, str |-> <<>>]
NullValue == [kind |-> "null", num |-> 0, special |-> "", bool |-> FALSE, str |-> <<>>]
StringValue(s) == [kind |-> "string", num |-> 0, special |-> "", bool |-> FALSE, str |-> s]

\* strconv.ParseFloat(value, 64) on the literals of this model: an optional
\* sign and decimal digits; "inf", "infinity" (optionally signed) and "nan",
\* whatever their case. ok is err == nil.
ParseFloat(s) ==
    LET signed == s # <<>> /\ Head(s) \in {"+", "-"}
        body == IF signed THEN Tail(s) ELSE s
        neg == signed /\ Head(s) = "-"
    IN  IF body # <<>> /\ \A k \in 1 .. Len(body) : IsDigit(body[k])
        THEN [ok |-> TRUE, f |-> NumberValue(IF neg THEN 0 - Atoi(body) ELSE Atoi(body))]
        ELSE IF ToLower(body) \in {<<"i", "n", "f">>, <<"i", "n", "f", "i", "n", "i", "t", "y">>}
        THEN [ok |-> TRUE, f |-> SpecialValue(IF neg THEN "-Inf" ELSE "+Inf")]
        ELSE IF ToLower(s) = <<"n", "a", "n">>
        THEN [ok |-> TRUE, f |-> SpecialValue("NaN")]
        ELSE [ok |-> FALSE, f |-> NumberValue(0)]

\* parseValue
parseValue(value) ==
    IF ParseFloat(value).ok THEN ParseFloat(value).f
    ELSE IF ToLower(value) = <<"t", "r", "u", "e">> THEN BoolValue(TRUE)
    ELSE IF ToLower(value) = <<"f", "a", "l", "s", "e">> THEN BoolValue(FALSE)
    ELSE IF ToLower(value) = <<"n", "u", "l", "l">> THEN NullValue
    ELSE StringValue(value)

\* Variants of the map assignment: one that replaces the map by the new
\* entry, and one that stores nothing.
MapPutOverwrite(f, key, v) == [k \in {key} |-> v]

MapPutNothing(f, key, v) == f

\* A Go map: its keys and their values. make(map...) is EmptyMap.
EmptyMap == [k \in {} |-> <<>>]
MapPut(f, key, v) == [k \in (DOMAIN f) \cup {key} |-> IF k = key THEN v ELSE f[k]]
MapLen(f) == Cardinality(DOMAIN f)

\* Variants of the placeholders: a name placeholder that ignores its index,
\* and value placeholders numbered from 1.
NamePlaceholderZero(n) == <<"#", "a", "t", "t", "r", "0">>

ValuePlaceholderFromOne(n) == <<":", "v", "a", "l">> \o Itoa(n + 1)

\* fmt.Sprintf("#attr%d", n) and fmt.Sprintf(":val%d", n)
NamePlaceholder(n) == <<"#", "a", "t", "t", "r">> \o Itoa(n)
ValuePlaceholder(n) == <<":", "v", "a", "l">> \o Itoa(n)

\* The cases of the switch that compare, and the value they store.
Comparisons ==
    {OpEquals, OpNotEquals, OpGreaterThan, OpLessThan, OpGreaterOrEqual, OpLessOrEqual}

\* The cases of the switch that start with: if value == "" { continue }
NeedsValue(op) == op \in Comparisons \cup {OpContains, OpNotContains, OpBeginsWith}

\* A variant that coerces the value of every operator.
CompiledValueParsed(op, value) == parseValue(value)

\* attrValues[valuePlaceholder] = parseValue(value), or = value for
\* Contains, NotContains and BeginsWith.
CompiledValue(op, value) == IF op \in Comparisons THEN parseValue(value) ELSE StringValue(value)

\* expr = fmt.Sprintf(...) of each case of the switch.
RenderClause(op, np, vp) ==
    CASE op = OpEquals -> np \o <<" ", "=", " ">> \o vp
      [] op = OpNotEquals -> np \o <<" ", "<", ">", " ">> \o vp
      [] op = OpGreaterThan -> np \o <<" ", ">", " ">> \o vp
      [] op = OpLessThan -> np \o <<" ", "<", " ">> \o vp
      [] op = OpGreaterOrEqual -> np \o <<" ", ">", "=", " ">> \o vp
      [] op = OpLessOrEqual -> np \o <<" ", "<", "=", " ">> \o vp
      [] op = OpContains -> <<"c", "o", "n", "t", "a", "i", "n", "s", "(">> \o np \o <<",", " ">> \o vp \o <<")">>
      [] op = OpNotContains -> <<"N", "O", "T", " ", "c", "o", "n", "t", "a", "i", "n", "s", "(">> \o np \o <<",", " ">> \o vp \o <<")">>
      [] op = OpBeginsWith -> <<"b", "e", "g", "i", "n", "s", "_", "w", "i", "t", "h", "(">> \o np \o <<",", " ">> \o vp \o <<")">>
      [] op = OpExists -> <<"a", "t", "t", "r", "i", "b", "u", "t", "e", "_", "e", "x", "i", "s", "t", "s", "(">> \o np \o <<")">>
      [] op = OpNotExists -> <<"a", "t", "t", "r", "i", "b", "u", "t", "e", "_", "n", "o", "t", "_", "e", "x", "i", "s", "t", "s", "(">> \o np \o <<")">>
      [] OTHER -> <<>>

\* The locals of BuildExpression before its loop. `clauses` records, for
\* each rendered expression, the condition it came from and the name and
\* value indices it used (-1: no value).
BuildStart ==
    [expressions |-> <<>>, attrNames |-> EmptyMap, attrValues |-> EmptyMap,
     valueCounter |-> 0, clauses |-> <<>>]

\* One iteration of: for _, cond := range f.Conditions { ... }
BuildStep(acc, cond, idx) ==
    LET name == TrimSpace(cond.AttributeName)
        value == TrimSpace(cond.AttributeValue)
        n == MapLen(acc.attrNames)
        np == NamePlaceholder(n)
        vp == ValuePlaceholder(acc.valueCounter)
        named == [acc EXCEPT !.attrNames = MapPut(acc.attrNames, np, name)]
    IN  IF name = <<>> THEN acc
        ELSE IF NeedsValue(cond.Operator)
        THEN IF value = <<>> THEN named
             ELSE [named EXCEPT
                     !.attrValues = MapPut(acc.attrValues, vp,
                                           CompiledValue(cond.Operator, value)),
                     !.expressions = Append(acc.expressions,
                                            RenderClause(cond.Operator, np, vp)),
                     !.valueCounter = acc.valueCounter + 1,
                     !.clauses = Append(acc.clauses, [cond |-> idx, name |-> n,
                                                      value |-> acc.valueCounter])]
        ELSE IF RenderClause(cond.Operator, np, vp) # <<>>
        THEN [named EXCEPT
                !.expressions = Append(acc.expressions, RenderClause(cond.Operator, np, vp)),
                !.clauses = Append(acc.clauses, [cond |-> idx, name |-> n, value |-> 0 - 1])]
        ELSE named

RECURSIVE BuildLoop(_, _, _)
BuildLoop(acc, conds, idx) ==
    IF idx > Len(conds) THEN acc
    ELSE BuildLoop(BuildStep(acc, conds[idx], idx), conds, idx + 1)

\* What BuildExpression returns: the text, the two maps, and whether the maps
\* are nil.
NoExpression ==
    [expr |-> <<>>, names |-> EmptyMap, values |-> EmptyMap, nilMaps |-> TRUE,
     clauses |-> <<>>]

\* FilterBuilder.BuildExpression
BuildExpression(conds) ==
    LET acc == BuildLoop(BuildStart, conds, 1)
    IN  IF Len(acc.expressions) = 0 THEN NoExpression
        ELSE [expr |-> Join(acc.expressions, <<" ", "A", "N", "D", " ">>),
              names |-> acc.attrNames, values |-> acc.attrValues, nilMaps |-> FALSE,
              clauses |-> acc.clauses]

\* The texts typed into the attribute and value inputs.
ShortNames == {<<" ">>, <<" ", "i", "d", " ">>}
NameInputs == ShortNames \cup {<<"a">>}
ShortValues == {<<" ">>, <<"4", "2">>}
Literals ==
    ShortValues \cup
    {<<>>, <<"t", "r", "u", "e">>, <<"T", "R", "U", "E">>, <<"f", "a", "l", "s", "e">>, <<"n", "u", "l", "l">>, <<"N", "u", "l", "l">>, <<"x">>, <<" ", "7", " ">>, <<"-", "3">>, <<"N", "a", "N">>, <<"i", "n", "f">>, <<"4", "x">>}

\* The condition lists BuildExpression is applied to, over every operator:
\* every literal in lists of at most one condition, the short values in
\* longer lists, the short names in lists of more than two conditions.
FilterCondition(n) ==
    [AttributeName : IF n <= 2 THEN NameInputs ELSE ShortNames,
     Operator : FilterOperators,
     AttributeValue : IF n <= 1 THEN Literals ELSE ShortValues]

ConditionLists == UNION {[1 .. n -> FilterCondition(n)] : n \in 0 .. MaxConds}

\* Lists of one more condition for the planner, over an equality and a test
\* without a value: their text has a clause after the second one.
LongLists ==
    [1 .. (MaxConds + 1) ->
        [AttributeName : ShortNames, Operator : {OpEquals, OpExists},
         AttributeValue : ShortValues]]

\* ------------------------------------------- Model.scanTable: the planner
\* m.tableInfo: nil, or the key schema DescribeTable returned.
NilTableInfo == [isNil |-> TRUE, PartitionKey |-> <<>>, GSIs |-> <<>>]

TableInfos ==
    {NilTableInfo,
     [isNil |-> FALSE, PartitionKey |-> <<"i", "d">>,
      GSIs |-> <<[Name |-> "gsi1", PartitionKey |-> <<"a">>]>>],
     [isNil |-> FALSE, PartitionKey |-> <<"k">>, GSIs |-> <<>>],
     [isNil |-> FALSE, PartitionKey |-> <<"i", "d">>,
      GSIs |-> <<[Name |-> "byId", PartitionKey |-> <<"i", "d">>],
                 [Name |-> "byA1", PartitionKey |-> <<"a">>],
                 [Name |-> "byA2", PartitionKey |-> <<"a">>]>>]}

\* A variant of SplitN2 that splits at the last separator.
SplitLast(s, sep) ==
    LET k == CHOOSE x \in Occurrences(s, sep) : \A y \in Occurrences(s, sep) : x >= y
    IN  <<SubSeq(s, 1, k - 1), SubSeq(s, k + Len(sep), Len(s))>>

\* strings.SplitN(s, sep, 2) of a string that contains sep.
SplitN2(s, sep) ==
    LET k == CHOOSE x \in Occurrences(s, sep) : \A y \in Occurrences(s, sep) : x <= y
    IN  <<SubSeq(s, 1, k - 1), SubSeq(s, k + Len(sep), Len(s))>>

\* A copy of a map without one key, and a map with the entries of another
\* assigned into it.
MapWithout(f, key) == [k \in (DOMAIN f) \ {key} |-> f[k]]
MapMerge(f, g) == [k \in (DOMAIN f) \cup (DOMAIN g) |-> IF k \in DOMAIN g THEN g[k] ELSE f[k]]

\* A variant of the test below that accepts an equality of any placeholder.
firstConditionIsSomeEquals(expr) == Contains(expr, <<" ", "=", " ", ":">>)

\* A variant of the test below that accepts every infix comparison of #attr0.
firstConditionIsComparison(expr) == Contains(expr, <<"#", "a", "t", "t", "r", "0", " ">>)

\* firstConditionIsEquals := strings.Contains(m.filterExpr, "#attr0 = :") ||
\*   (strings.Contains(m.filterExpr, "#attr0 =") && !strings.Contains(m.filterExpr, "#attr0 <>"))
firstConditionIsEquals(expr) ==
    \/ Contains(expr, <<"#", "a", "t", "t", "r", "0", " ", "=", " ", ":">>)
    \/ (Contains(expr, <<"#", "a", "t", "t", "r", "0", " ", "=">>) /\ ~Contains(expr, <<"#", "a", "t", "t", "r", "0", " ", "<", ">">>))

\* A variant of the choice below without its first loop: any key.
AnyPlaceholders(values) == IF DOMAIN values # {} THEN DOMAIN values ELSE {<<>>}

\* The placeholders the two loops over m.filterValues can end with: a key
\* with the prefix ":val0" if there is one, else any key, else "".
FirstPlaceholders(values) ==
    LET pref == {p \in DOMAIN values : HasPrefix(p, <<":", "v", "a", "l", "0">>)}
    IN  IF pref # {} THEN pref
        ELSE IF DOMAIN values # {} THEN DOMAIN values
        ELSE {<<>>}

\* m.filterValues[firstPlaceholder]
MapGet(values, key) == IF key \in DOMAIN values THEN values[key] ELSE NullValue

\* A variant of the read below that passes no placeholder maps, and the read
\* scanTable issues when it plans nothing: a continuous scan under
\* the whole filter, or one plain ScanTable page without a filter.
ScanPlanBare(out) ==
    [kind |-> IF out.expr # <<>> THEN "continuousScan" ELSE "scan",
     IndexName |-> "", KeyAttribute |-> <<>>, KeyConditionExpression |-> <<>>,
     FilterExpression |-> out.expr, Names |-> EmptyMap, Values |-> EmptyMap,
     StartKey |-> Nil,
     timeoutMinutes |-> IF out.expr # <<>> THEN scanTimeoutMinutes ELSE 0]

ScanPlan(out) ==
    [kind |-> IF out.expr # <<>> THEN "continuousScan" ELSE "scan",
     IndexName |-> "", KeyAttribute |-> <<>>, KeyConditionExpression |-> <<>>,
     FilterExpression |-> out.expr, Names |-> out.names, Values |-> out.values,
     StartKey |-> Nil,
     timeoutMinutes |-> IF out.expr # <<>> THEN scanTimeoutMinutes ELSE 0]

\* dynamo.QueryInput of a key lookup on attribute keyAttr of the table
\* (index "") or of a global index.
QueryPlan(index, keyAttr, out, fp) ==
    LET multi == Contains(out.expr, <<" ", "A", "N", "D", " ">>)
        additionalFilterExpr == IF multi THEN SplitN2(out.expr, <<" ", "A", "N", "D", " ">>)[2] ELSE <<>>
        additionalNames == IF multi THEN MapWithout(out.names, <<"#", "a", "t", "t", "r", "0">>) ELSE EmptyMap
        additionalValues == IF multi THEN MapWithout(out.values, fp) ELSE EmptyMap
        keyNames == MapPut(EmptyMap, <<"#", "p", "k">>, keyAttr)
        keyValues == MapPut(EmptyMap, fp, MapGet(out.values, fp))
    IN  [kind |-> "query", IndexName |-> index, KeyAttribute |-> keyAttr,
         KeyConditionExpression |-> <<"#", "p", "k", " ", "=", " ">> \o fp,
         FilterExpression |-> additionalFilterExpr,
         Names |-> IF additionalFilterExpr # <<>> THEN MapMerge(keyNames, additionalNames)
                   ELSE keyNames,
         Values |-> IF additionalFilterExpr # <<>> THEN MapMerge(keyValues, additionalValues)
                    ELSE keyValues,
         StartKey |-> Nil, timeoutMinutes |-> 0]

\* A variant of the loop below that keeps only the last matching index.
MatchingGSIsLast(ti, attrName) ==
    {g \in 1 .. Len(ti.GSIs) :
        /\ ti.GSIs[g].PartitionKey = attrName
        /\ \A h \in 1 .. Len(ti.GSIs) : h > g => ti.GSIs[h].PartitionKey # attrName}

\* for _, gsi := range m.tableInfo.GSIs { if gsi.PartitionKey == attrName {...} }
MatchingGSIs(ti, attrName) == {g \in 1 .. Len(ti.GSIs) : ti.GSIs[g].PartitionKey = attrName}

\* The read the closure of Model.scanTable issues for the filter `out` under
\* the schema ti, fp being the value placeholder its loops ended with.
PlanRead(ti, out, fp) ==
    IF /\ ~ti.isNil /\ out.expr # <<>> /\ ~out.nilMaps
       /\ <<"#", "a", "t", "t", "r", "0">> \in DOMAIN out.names
       /\ firstConditionIsEquals(out.expr)
    THEN LET attrName == out.names[<<"#", "a", "t", "t", "r", "0">>]
             gsis == MatchingGSIs(ti, attrName)
         IN  IF attrName = ti.PartitionKey THEN QueryPlan("", ti.PartitionKey, out, fp)
             ELSE IF gsis # {}
             THEN QueryPlan(ti.GSIs[CHOOSE g \in gsis : \A h \in gsis : g <= h].Name,
                            attrName, out, fp)
             ELSE ScanPlan(out)
    ELSE ScanPlan(out)

NoPlan == [ScanPlan(NoExpression) EXCEPT !.kind = "none"]

\* A FilterBuilder whose expression was not built, with no schema loaded
\* and no read planned.
IdleFilter ==
    [Conditions |-> <<>>, ActiveCondIdx |-> 0, ActiveField |-> 0, OperatorOpen |-> FALSE,
     built |-> FALSE, calls |-> 0, out |-> NoExpression,
     tableInfo |-> NilTableInfo, plan |-> NoPlan,
     converted |-> FALSE, attrValues |-> EmptyMap]

\* A variant of the call below that also drops the rows it skipped.
BuildCompacting ==
    /\ fb.calls < MaxBuilds
    /\ fb' = [fb EXCEPT !.built = TRUE, !.calls = @ + 1,
                        !.out = BuildExpression(fb.Conditions),
                        !.Conditions = SelectSeq(@, LAMBDA c : TrimSpace(c.AttributeName) # <<>>)]
    /\ UNCHANGED <<store, ex, caller, m, cmd, disc>>

\* expr, names, values := m.filterBuilder.BuildExpression(), stored in
\* m.filterExpr, m.filterNames, m.filterValues (fb.out); fb.calls counts the
\* calls made. The method assigns no field of the FilterBuilder.
Build ==
    /\ fb.calls < MaxBuilds
    /\ fb' = [fb EXCEPT !.built = TRUE, !.calls = @ + 1,
                        !.out = BuildExpression(fb.Conditions)]
    /\ UNCHANGED <<store, ex, caller, m, cmd, disc>>

\* Model.updateQuery, key "enter" outside the operator list, and the start of
\* the closure of m.scanTable() it returns: the expression is built and the
\* read is planned under the schema the model holds.
ApplyFilter ==
    /\ ~fb.built
    /\ \E ti \in TableInfos :
         LET out == BuildExpression(fb.Conditions) IN
         \E fp \in FirstPlaceholders(out.values) :
            /\ fb' = [fb EXCEPT !.built = TRUE, !.out = out, !.tableInfo = ti,
                                !.plan = PlanRead(ti, out, fp)]
            /\ m' = [m EXCEPT !.view = "viewTableData", !.lastKey = Nil,
                              !.filterExpr = IF out.expr = <<>> THEN NoFilter ELSE "F"]
    /\ UNCHANGED <<store, ex, caller, cmd, disc>>

\* ------------------------------------------- client: values for the store
\* A types.AttributeValue: the member type (S, N, BOOL, NULL) and its Value.
AttributeValueMember(member, str, b) == [member |-> member, Value |-> str, Bool |-> b]

\* fmt.Sprintf("%v", val) of a float64 with an integral value, or of one of
\* the special values.
FormatFloat(v) ==
    IF v.special = "NaN" THEN <<"N", "a", "N">>
    ELSE IF v.special = "+Inf" THEN <<"+", "I", "n", "f">>
    ELSE IF v.special = "-Inf" THEN <<"-", "I", "n", "f">>
    ELSE IF v.num < 0 THEN <<"-">> \o Itoa(0 - v.num) ELSE Itoa(v.num)

\* interfaceToAttributeValue: the type switch has cases for string, int,
\* int64, float64 and bool; a nil interface takes the default case, which
\* returns the string fmt.Sprintf("%v", nil), "<nil>".
interfaceToAttributeValue(v) ==
    CASE v.kind = "string" -> AttributeValueMember("S", v.str, FALSE)
      [] v.kind = "number" -> AttributeValueMember("N", FormatFloat(v), FALSE)
      [] v.kind = "bool" -> AttributeValueMember("BOOL", <<>>, v.bool)
      [] OTHER -> AttributeValueMember("S", <<"<", "n", "i", "l", ">">>, FALSE)

\* ScanTable, ScanTableContinuous and QueryTable, before their first request:
\* attrValues[k] = interfaceToAttributeValue(v) for every expression value.
ConvertValues ==
    /\ fb.built /\ ~fb.converted
    /\ fb' = [fb EXCEPT !.converted = TRUE,
                        !.attrValues = [k \in DOMAIN fb.out.values |->
                                           interfaceToAttributeValue(fb.out.values[k])]]
    /\ UNCHANGED <<store, ex, caller, m, cmd, disc>>

\* ---------------------------------------- FilterBuilder: the edit methods
\* The condition AddCondition appends: empty inputs and OpEquals. (Which
\* input holds the focus is not modelled: updateFocus changes nothing else.)
NewCondition == [AttributeName |-> <<>>, Operator |-> OpEquals, AttributeValue |-> <<>>]

\* NewFilterBuilder: no conditions, then fb.AddCondition().
NewFilterBuilder ==
    [IdleFilter EXCEPT !.Conditions = <<NewCondition>>]

\* f.Conditions[f.ActiveCondIdx] (ActiveCondIdx counts from 0).
ActiveCondition == fb.Conditions[fb.ActiveCondIdx + 1]

\* FilterBuilder.AddCondition
AddCondition ==
    /\ Len(fb.Conditions) < MaxConds
    /\ fb' = [fb EXCEPT !.Conditions = Append(@, NewCondition)]
    /\ UNCHANGED <<store, ex, caller, m, cmd, disc>>

\* FilterBuilder.RemoveCondition: with more than one condition the active
\* one is cut out and ActiveCondIdx is clamped to the last row; ActiveField
\* is not assigned.
RemoveCondition ==
    /\ Len(fb.Conditions) > 1
    /\ LET rest == SubSeq(fb.Conditions, 1, fb.ActiveCondIdx)
                     \o SubSeq(fb.Conditions, fb.ActiveCondIdx + 2, Len(fb.Conditions))
       IN  fb' = [fb EXCEPT !.Conditions = rest,
                            !.ActiveCondIdx = IF @ >= Len(rest) THEN Len(rest) - 1 ELSE @]
    /\ UNCHANGED <<store, ex, caller, m, cmd, disc>>

\* Model.updateQuery, key "ctrl+c": FilterBuilder.Clear, then m.filterExpr = ""
\* and nil maps. Clear assigns Conditions, ActiveCondIdx and ActiveField and
\* calls AddCondition; OperatorOpen is not assigned.
Clear ==
    /\ fb' = [fb EXCEPT !.Conditions = <<NewCondition>>, !.ActiveCondIdx = 0,
                        !.ActiveField = 0, !.built = FALSE, !.out = NoExpression,
                        !.plan = NoPlan]
    /\ fb' # fb
    /\ UNCHANGED <<store, ex, caller, m, cmd, disc>>

\* FilterBuilder.NextField
NextField ==
    /\ LET needsValue == ActiveCondition.Operator \notin {OpExists, OpNotExists}
           last == fb.ActiveCondIdx >= Len(fb.Conditions) - 1
       IN  fb' = CASE fb.ActiveField = 0 ->
                        [fb EXCEPT !.ActiveField = 1, !.OperatorOpen = TRUE]
                   [] fb.ActiveField = 1 /\ needsValue ->
                        [fb EXCEPT !.ActiveField = 2, !.OperatorOpen = FALSE]
                   [] fb.ActiveField = 1 /\ ~needsValue /\ ~last ->
                        [fb EXCEPT !.ActiveCondIdx = @ + 1, !.ActiveField = 0,
                                   !.OperatorOpen = FALSE]
                   [] fb.ActiveField = 1 /\ ~needsValue /\ last ->
                        [fb EXCEPT !.OperatorOpen = FALSE]
                   [] fb.ActiveField = 2 /\ ~last ->
                        [fb EXCEPT !.ActiveCondIdx = @ + 1, !.ActiveField = 0]
                   [] OTHER -> fb
    /\ fb' # fb
    /\ UNCHANGED <<store, ex, caller, m, cmd, disc>>

\* FilterBuilder.PrevField
PrevField ==
    /\ fb' = CASE fb.ActiveField = 2 ->
                    [fb EXCEPT !.ActiveField = 1, !.OperatorOpen = TRUE]
               [] fb.ActiveField = 1 ->
                    [fb EXCEPT !.ActiveField = 0, !.OperatorOpen = FALSE]
               [] fb.ActiveField = 0 /\ fb.ActiveCondIdx > 0 ->
                    [fb EXCEPT !.ActiveCondIdx = @ - 1,
                               !.ActiveField =
                                   IF fb.Conditions[fb.ActiveCondIdx].Operator
                                        \in {OpExists, OpNotExists}
                                   THEN 1 ELSE 2]
               [] OTHER -> fb
    /\ fb' # fb
    /\ UNCHANGED <<store, ex, caller, m, cmd, disc>>

\* FilterBuilder.NextOperator: next := (current + 1) % len(FilterOperators)
NextOperator ==
    /\ fb.ActiveField = 1
    /\ fb' = [fb EXCEPT !.Conditions[fb.ActiveCondIdx + 1].Operator =
                            (@ + 1) % Cardinality(FilterOperators)]
    /\ UNCHANGED <<store, ex, caller, m, cmd, disc>>

\* FilterBuilder.PrevOperator: current - 1, or the last operator below 0.
PrevOperator ==
    /\ fb.ActiveField = 1
    /\ fb' = [fb EXCEPT !.Conditions[fb.ActiveCondIdx + 1].Operator =
                            IF @ - 1 < 0 THEN Cardinality(FilterOperators) - 1 ELSE @ - 1]
    /\ UNCHANGED <<store, ex, caller, m, cmd, disc>>

\* FilterBuilder.NextCondition
NextCondition ==
    /\ fb.ActiveCondIdx < Len(fb.Conditions) - 1
    /\ fb' = [fb EXCEPT !.ActiveCondIdx = @ + 1, !.ActiveField = 0,
                        !.OperatorOpen = FALSE]
    /\ UNCHANGED <<store, ex, caller, m, cmd, disc>>

\* FilterBuilder.PrevCondition
PrevCondition ==
    /\ fb.ActiveCondIdx > 0
    /\ fb' = [fb EXCEPT !.ActiveCondIdx = @ - 1, !.ActiveField = 0,
                        !.OperatorOpen = FALSE]
    /\ UNCHANGED <<store, ex, caller, m, cmd, disc>>

\* FilterBuilder.Update with the keys of a text ("id" for a name, "42" for a
\* value): the focused input of the active condition (field 0 or 2) takes
\* the text; field 1 takes none.
TypeText ==
    /\ fb.ActiveCondIdx < Len(fb.Conditions)
    /\ fb.ActiveField \in {0, 2}
    /\ fb' = IF fb.ActiveField = 0
             THEN [fb EXCEPT !.Conditions[fb.ActiveCondIdx + 1].AttributeName = <<"i", "d">>]
             ELSE [fb EXCEPT !.Conditions[fb.ActiveCondIdx + 1].AttributeValue = <<"4", "2">>]
    /\ fb' # fb
    /\ UNCHANGED <<store, ex, caller, m, cmd, disc>>

\* The start of the closure of m.scanTable() once the expression is stored:
\* the read is planned from m.filterExpr, m.filterNames and m.filterValues
\* under the schema the model holds. The closure assigns none of the three.
PlanScan ==
    /\ fb.built /\ fb.plan.kind = "none"
    /\ \E ti \in TableInfos :
         \E fp \in FirstPlaceholders(fb.out.values) :
            fb' = [fb EXCEPT !.tableInfo = ti, !.plan = PlanRead(ti, fb.out, fp)]
    /\ UNCHANGED <<store, ex, caller, m, cmd, disc>>

\* A variant of QueryTable that reads the whole key range.
QueryTableToEnd(key, limit, filter) ==
    [isErr |-> FALSE,
     Items |-> SelectSeq(Range(key + 1, NRec), LAMBDA r : Matches(filter, r)),
     LastEvaluatedKey |-> Nil,
     Count |-> Len(SelectSeq(Range(key + 1, NRec), LAMBDA r : Matches(filter, r))),
     ScannedCount |-> NRec - key]

\* Client.QueryTable when c.db.Query succeeds: one page of the records under
\* the key value (the store pages a Query as it pages a Scan), read after
\* `key` with the given Limit and FilterExpression.
QueryTable(key, limit, filter) ==
    LET page == ScanPage(key, limit, filter)
    IN  [isErr |-> FALSE, Items |-> page.Items, LastEvaluatedKey |-> page.LastEvaluatedKey,
         Count |-> Len(page.Items), ScannedCount |-> page.ScannedCount]

\* The filter the store applies for a planned query.
ResidualFilter(plan) == IF plan.FilterExpression = <<>> THEN NoFilter ELSE "F"

\* The closure of scanTable with a key lookup planned: one QueryTable call
\* under context.Background(), its result returned as queryResultMsg.
RunQuery(i) ==
    /\ fb.built /\ fb.plan.kind = "query"
    /\ Free(i)
    /\ m.statusMsg = NoStatus
    /\ cmd' = [cmd EXCEPT ![i] =
                 [IdleCmd EXCEPT !.stage = "sent", !.kind = "query",
                     !.msg = [type |-> "queryResultMsg",
                              result |-> QueryTable(fb.plan.StartKey, m.pageSize,
                                                    ResidualFilter(fb.plan))]]]
    /\ UNCHANGED <<store, ex, caller, m, disc, fb>>

\* The same closure when c.db.Query fails: return errMsg{err}.
RunQueryFail(i) ==
    /\ fb.built /\ fb.plan.kind = "query"
    /\ Free(i)
    /\ m.statusMsg = NoStatus
    /\ cmd' = [cmd EXCEPT ![i] =
                 [IdleCmd EXCEPT !.stage = "sent", !.kind = "query",
                                 !.msg = [type |-> "errMsg", result |-> NoResult]]]
    /\ UNCHANGED <<store, ex, caller, m, disc, fb>>

\* ------------------------------------------ the session over two tables
\* The tables of the connected region, and the key schema DescribeTable
\* returns for each: A has the partition key id (and a GSI on a), B the
\* partition key k.
Tables == {"A", "B"}

SchemaOf(t) ==
    IF t = "A"
    THEN [isNil |-> FALSE, PartitionKey |-> <<"i", "d">>,
          GSIs |-> <<[Name |-> "gsi1", PartitionKey |-> <<"a">>]>>]
    ELSE IF t = "B" THEN [isNil |-> FALSE, PartitionKey |-> <<"k">>, GSIs |-> <<>>]
    ELSE NilTableInfo

\* The lowest closure slot that is free (0 if none), other than slot `but`.
FreeSlot(but) ==
    LET free == {i \in DOMAIN cmd : Free(i) /\ i # but}
    IN  IF free = {} THEN 0 ELSE CHOOSE i \in free : \A j \in free : i <= j

\* Client.ScanTable when c.db.Scan succeeds: one page, returned as ScanResult.
ScanTable(key, limit, filter) ==
    LET page == ScanPage(key, limit, filter)
    IN  [isErr |-> FALSE, Items |-> page.Items, LastEvaluatedKey |-> page.LastEvaluatedKey,
         Count |-> Len(page.Items), ScannedCount |-> page.ScannedCount]

\* The closure of Model.scanTable over the model mm it was made from, with
\* store calls that succeed and a scan deadline that does not pass. With a
\* filter and a schema a key lookup may be planned (fb.out is the compiled
\* filter "F"); a Query whose key attribute is not a key of the table read is
\* rejected by the store. Else a filter gives a continuous scan, and no
\* filter one ScanTable page.
scanTable(mm, fp) ==
    LET out == IF mm.filterExpr = NoFilter THEN NoExpression ELSE fb.out
        plan == PlanRead(SchemaOf(mm.tableInfo), out, fp)
        read == [NoRead EXCEPT !.table = mm.currentTable, !.filter = mm.filterExpr,
                               !.kind = plan.kind,
                               !.schema = IF mm.filterExpr = NoFilter THEN "nil"
                                          ELSE mm.tableInfo]
    IN  [cmd |-> [IdleCmd EXCEPT !.stage = "sent", !.kind = "scanTable", !.read = read],
         msg |-> IF plan.kind = "query"
                 THEN IF mm.tableInfo # mm.currentTable
                      THEN [type |-> "errMsg", result |-> NoResult]
                      ELSE [type |-> "queryResultMsg",
                            result |-> QueryTable(Nil, mm.pageSize, ResidualFilter(plan))]
                 ELSE IF mm.filterExpr # NoFilter
                 THEN [type |-> "continuousScanMsg",
                       result |-> Run(mm.pageSize, Nil, mm.filterExpr)]
                 ELSE [type |-> "scanResultMsg",
                       result |-> ScanTable(Nil, mm.pageSize, NoFilter)]]

\* A closure with its message: the message above, or errMsg when the store
\* call fails.
Answered(c, ok) ==
    [c.cmd EXCEPT !.msg = IF ok THEN c.msg ELSE [type |-> "errMsg", result |-> NoResult]]

\* Model.updateTables, key "enter" on table t: m.currentTable, m.loading and
\* m.view are set and tea.Batch(m.describeTable(), m.scanTable()) is returned;
\* m.tableInfo is not assigned. Both closures read the model as it is now.
KeyOpenTable(t) ==
    /\ m.view = "viewTables"
    /\ FreeSlot(0) # 0 /\ FreeSlot(FreeSlot(0)) # 0
    /\ m' = [m EXCEPT !.currentTable = t, !.loading = TRUE, !.view = "viewTableData"]
    /\ \E okD \in BOOLEAN, okS \in BOOLEAN :
         \E fp \in FirstPlaceholders(fb.out.values) :
            cmd' = [cmd EXCEPT
                      ![FreeSlot(0)] =
                          Answered([cmd |-> [IdleCmd EXCEPT !.stage = "sent",
                                                !.kind = "describeTable",
                                                !.read = [NoRead EXCEPT !.table = t,
                                                                        !.kind = "describe"]],
                                    msg |-> [type |-> "tableInfoMsg",
                                             result |-> [info |-> t]]], okD),
                      ![FreeSlot(FreeSlot(0))] = Answered(scanTable(m', fp), okS)]
    /\ UNCHANGED <<store, ex, caller, disc, fb>>

\* Model.updateTableData, keys "q", "esc": back to the table list; the
\* current table, the rows, the cursor and the filter are cleared, m.tableInfo
\* is not.
KeyLeaveTable ==
    /\ m.view = "viewTableData"
    /\ m' = [m EXCEPT !.view = "viewTables", !.currentTable = "", !.items = <<>>,
                      !.lastKey = Nil, !.filterExpr = NoFilter, !.shown = NoRead]
    /\ UNCHANGED <<store, ex, caller, cmd, disc, fb>>

\* Model.updateTableData, key "f"
KeyOpenFilter ==
    /\ m.view = "viewTableData"
    /\ m' = [m EXCEPT !.view = "viewQuery"]
    /\ UNCHANGED <<store, ex, caller, cmd, disc, fb>>

\* Model.updateQuery, key "esc"
KeyCloseFilter ==
    /\ m.view = "viewQuery"
    /\ m' = [m EXCEPT !.view = "viewTableData"]
    /\ UNCHANGED <<store, ex, caller, cmd, disc, fb>>

\* Model.updateQuery, key "enter" outside the operator list, with the
\* conditions of fb: the compiled filter is stored, m.lastKey = nil, the table
\* view is shown and m.scanTable() is returned.
KeyApplyFilter ==
    /\ m.view = "viewQuery"
    /\ FreeSlot(0) # 0
    /\ m' = [m EXCEPT !.filterExpr = "F", !.view = "viewTableData", !.lastKey = Nil]
    /\ \E ok \in BOOLEAN :
         \E fp \in FirstPlaceholders(fb.out.values) :
            cmd' = [cmd EXCEPT ![FreeSlot(0)] = Answered(scanTable(m', fp), ok)]
    /\ UNCHANGED <<store, ex, caller, disc, fb>>

\* Model.updateTableData, keys "pgdown", "ctrl+d": if m.lastKey != nil,
\* m.scanTableNext(), whose closure calls ScanTable with m.currentTable,
\* m.lastKey and the stored filter and returns scanResultMsg.
KeyNextPage ==
    /\ m.view = "viewTableData"
    /\ m.lastKey # Nil
    /\ FreeSlot(0) # 0
    /\ \E ok \in BOOLEAN :
         cmd' = [cmd EXCEPT ![FreeSlot(0)] =
                   Answered([cmd |-> [IdleCmd EXCEPT !.stage = "sent",
                                         !.kind = "scanTableNext",
                                         !.read = [NoRead EXCEPT
                                                      !.table = m.currentTable,
                                                      !.kind = "scan",
                                                      !.filter = m.filterExpr,
                                                      !.startKey = m.lastKey,
                                                      !.cursorOf = <<m.shown.table,
                                                                     m.shown.kind,
                                                                     m.shown.filter>>]],
                             msg |-> [type |-> "scanResultMsg",
                                      result |-> ScanTable(m.lastKey, m.pageSize,
                                                           m.filterExpr)]], ok)]
    /\ UNCHANGED <<store, ex, caller, m, disc, fb>>

\* ------------------------------------------------------- specifications
\* Spec: one call of ScanTableContinuous from the nil cursor with any target
\* and filter, and its resumption by a direct caller.
Init ==
    /\ store \in Stores
    /\ \E t \in Targets, f \in Filters :
         /\ (f = NoFilter => store.match = 1 .. NRec)
         /\ ex = [i \in Cmds |-> IF i = 1 THEN StartExec(t, Nil, f) ELSE IdleExec]
         /\ caller = [NoCaller EXCEPT !.stage = "run1", !.target1 = t]
    /\ m = IdleModel
    /\ cmd = [i \in Cmds |-> IdleCmd]
    /\ disc = IdleDisc
    /\ fb = IdleFilter

Next ==
    \/ \E i \in Cmds : ScanCheck(i)
    \/ \E i \in Cmds : ScanReadOk(i)
    \/ \E i \in Cmds : ScanReadFail(i)
    \/ \E i \in Cmds : ScanCheckErr(i)
    \/ \E i \in Cmds : CtxDone(i)
    \/ Resume

Spec == Init /\ [][Next]_vars

\* SpecSession: the session on an opened table, right after a filter was
\* applied (Model.updateQuery, "enter"): the table view is shown and the scan
\* of the filtered table is running.
InitSession ==
    /\ store \in Stores
    /\ caller = NoCaller
    /\ m = [IdleModel EXCEPT !.view = "viewTableData", !.filterExpr = "F"]
    /\ ex = [i \in Cmds |-> IF i = 1 THEN ScanTableCall(m) ELSE IdleExec]
    /\ cmd = [i \in Cmds |-> IF i = 1
                             THEN [IdleCmd EXCEPT !.stage = "running", !.kind = "scanTable"]
                             ELSE IdleCmd]
    /\ disc = IdleDisc
    /\ fb = IdleFilter

NextSession ==
    \/ \E i \in Cmds : ScanCheck(i)
    \/ \E i \in Cmds : ScanReadOk(i)
    \/ \E i \in Cmds : ScanReadFail(i)
    \/ \E i \in Cmds : ScanCheckErr(i)
    \/ \E i \in Cmds : CtxDone(i)
    \/ \E i \in Cmds : CmdReturn(i)
    \/ \E i \in Cmds : Deliver(i)
    \/ \E i \in Cmds : KeyRefresh(i)
    \/ \E i \in Cmds : KeyContinueYes(i)
    \/ KeyContinueNo

SpecSession == InitSession /\ [][NextSession]_vars

\* SpecOverlap: the session of SpecSession with its first scan running, the
\* operator pressing "r" before the first result is shown; deadlines expire
\* and the operator answers the continue decision, no read fails.
OverlapCmds == 1 .. MaxOverlap

InitOverlap ==
    /\ store \in Stores
    /\ caller = NoCaller
    /\ m = [IdleModel EXCEPT !.view = "viewTableData", !.filterExpr = "F"]
    /\ ex = [i \in OverlapCmds |-> IF i = 1 THEN ScanTableCall(m) ELSE IdleExec]
    /\ cmd = [i \in OverlapCmds |->
                IF i = 1 THEN [IdleCmd EXCEPT !.stage = "running", !.kind = "scanTable"]
                ELSE IdleCmd]
    /\ disc = IdleDisc
    /\ fb = IdleFilter

NextOverlap ==
    \/ \E i \in OverlapCmds : ScanCheck(i)
    \/ \E i \in OverlapCmds : ScanReadOk(i)
    \/ \E i \in OverlapCmds : CmdReturn(i)
    \/ \E i \in OverlapCmds : Deliver(i)
    \/ \E i \in OverlapCmds : KeyRefresh(i) /\ m.statusMsg = NoStatus
    \/ \E i \in OverlapCmds : CtxDone(i)
    \/ \E i \in OverlapCmds : KeyContinueYes(i)
    \/ KeyContinueNo

SpecOverlap == InitOverlap /\ [][NextOverlap]_vars

\* SpecDiscover: one call DiscoverRegionsWithTables(ctx, false, "") (the
\* call of Model.discoverRegions), from its entry to its return.
QuietStore == [ext |-> [c \in 0 .. NRec - 1 |-> 1], match |-> {}, lekAtEnd |-> FALSE]

InitDiscover ==
    /\ store = QuietStore
    /\ ex = [i \in Cmds |-> IdleExec]
    /\ caller = NoCaller
    /\ m = IdleModel
    /\ cmd = [i \in Cmds |-> IdleCmd]
    /\ disc = [IdleDisc EXCEPT !.main = "loop"]
    /\ fb = IdleFilter

NextDiscover ==
    \/ Launch
    \/ LoopEnd
    \/ \E r \in Regions : Acquire(r)
    \/ \E r \in Regions : LoadConfig(r)
    \/ \E r \in Regions : ListFail(r)
    \/ \E r \in Regions : ListOk(r)
    \/ \E r \in Regions : Lock(r)
    \/ \E r \in Regions : ReadResults(r)
    \/ \E r \in Regions : AppendResult(r)
    \/ \E r \in Regions : Unlock(r)
    \/ \E r \in Regions : Release(r)
    \/ \E r \in Regions : WgDone(r)
    \/ WaitReturn
    \/ UpdateRegionsDiscovered

SpecDiscover == InitDiscover /\ [][NextDiscover]_vars

\* SpecDiscoverFair: the same call under a fair scheduler. Every goroutine
\* that can take its next step eventually takes it, and each of the two
\* calls a probe makes (LoadDefaultConfig, ListTables) returns.
SpecDiscoverFair ==
    /\ SpecDiscover
    /\ WF_vars(Launch) /\ WF_vars(LoopEnd) /\ WF_vars(WaitReturn)
    /\ WF_vars(UpdateRegionsDiscovered)
    /\ \A r \in Regions :
          /\ WF_vars(Acquire(r)) /\ WF_vars(LoadConfig(r))
          /\ WF_vars(ListFail(r) \/ ListOk(r))
          /\ WF_vars(Lock(r)) /\ WF_vars(ReadResults(r)) /\ WF_vars(AppendResult(r))
          /\ WF_vars(Unlock(r)) /\ WF_vars(Release(r)) /\ WF_vars(WgDone(r))

\* SpecFilter: BuildExpression applied to a condition list, and its values
\* converted for the store.
InitFilter ==
    /\ store = QuietStore
    /\ ex = [i \in Cmds |-> IdleExec]
    /\ caller = NoCaller
    /\ m = IdleModel
    /\ cmd = [i \in Cmds |-> IdleCmd]
    /\ disc = IdleDisc
    /\ \E conds \in ConditionLists : fb = [IdleFilter EXCEPT !.Conditions = conds]

NextFilter == (~fb.built /\ Build) \/ ConvertValues

SpecFilter == InitFilter /\ [][NextFilter]_vars

\* SpecPlan: a filter is applied and scanTable plans its read.
InitPlan ==
    /\ store = QuietStore
    /\ ex = [i \in Cmds |-> IdleExec]
    /\ caller = NoCaller
    /\ m = IdleModel
    /\ cmd = [i \in Cmds |-> IdleCmd]
    /\ disc = IdleDisc
    /\ \E conds \in ConditionLists \cup LongLists :
          fb = [IdleFilter EXCEPT !.Conditions = conds]

NextPlan == ApplyFilter

SpecPlan == InitPlan /\ [][NextPlan]_vars

\* SpecBuilder: the operator edits the conditions of a new FilterBuilder,
\* then applies the filter (once or again) and the read is planned; ctrl+c
\* starts over.
InitBuilder ==
    /\ store = QuietStore
    /\ ex = [i \in Cmds |-> IdleExec]
    /\ caller = NoCaller
    /\ m = [IdleModel EXCEPT !.view = "viewQuery"]
    /\ cmd = [i \in Cmds |-> IdleCmd]
    /\ disc = IdleDisc
    /\ fb = NewFilterBuilder

NextBuilder ==
    \/ ~fb.built /\ AddCondition
    \/ ~fb.built /\ RemoveCondition
    \/ Clear
    \/ ~fb.built /\ NextField
    \/ ~fb.built /\ PrevField
    \/ ~fb.built /\ NextOperator
    \/ ~fb.built /\ PrevOperator
    \/ ~fb.built /\ NextCondition
    \/ ~fb.built /\ PrevCondition
    \/ ~fb.built /\ TypeText
    \/ fb.ActiveField # 1 /\ Build
    \/ PlanScan

SpecBuilder == InitBuilder /\ [][NextBuilder]_vars

\* SpecQuery: a filter that starts with an equality is applied on an opened
\* table, and a planned key lookup is run and its message handled; in the
\* table view the operator changes the page size.
QueryLists ==
    {conds \in ConditionLists :
        /\ Len(conds) >= 1
        /\ \A i \in 1 .. Len(conds) :
              /\ conds[i].AttributeName = <<" ", "i", "d", " ">>
              /\ conds[i].AttributeValue = <<"4", "2">>
              /\ conds[i].Operator \in IF i = 1 THEN {OpEquals} ELSE {OpExists, OpLessThan}}

InitQuery ==
    /\ store \in Stores
    /\ ex = [i \in Cmds |-> IdleExec]
    /\ caller = NoCaller
    /\ m = [IdleModel EXCEPT !.view = "viewQuery"]
    /\ cmd = [i \in Cmds |-> IdleCmd]
    /\ disc = IdleDisc
    /\ \E conds \in QueryLists : fb = [IdleFilter EXCEPT !.Conditions = conds]

NextQuery ==
    \/ ApplyFilter
    \/ \E i \in Cmds : RunQuery(i)
    \/ \E i \in Cmds : RunQueryFail(i)
    \/ \E i \in Cmds : Deliver(i)

SpecQuery == InitQuery /\ [][NextQuery]_vars

\* SpecTables: the session over the table list. The operator opens and
\* leaves tables, opens the filter view, applies the filter id = 42 and asks
\* for next pages without waiting for the messages of earlier reads; each
\* store call ends (the closure is recorded with its message) and the program
\* loop delivers the messages in any order. fb holds the one equality
\* condition the operator enters each time the filter view is used.
InitTables ==
    /\ store = [QuietStore EXCEPT !.match = {1, NRec}]
    /\ ex = [i \in OverlapCmds |-> IdleExec]
    /\ caller = NoCaller
    /\ m = IdleModel
    /\ cmd = [i \in OverlapCmds |-> IdleCmd]
    /\ disc = IdleDisc
    /\ \E conds \in QueryLists :
          /\ Len(conds) = 1
          /\ fb = [IdleFilter EXCEPT !.Conditions = conds, !.built = TRUE, !.calls = 1,
                                     !.out = BuildExpression(conds)]

NextTables ==
    \/ \E t \in Tables : KeyOpenTable(t)
    \/ KeyLeaveTable
    \/ KeyOpenFilter
    \/ KeyCloseFilter
    \/ KeyApplyFilter
    \/ KeyNextPage
    \/ \E i \in OverlapCmds : Deliver(i)

SpecTables == InitTables /\ [][NextTables]_vars

\* SpecPageSize: the operator opens and leaves tables and changes the page
\* size in the table view; the reads of the table view use the page size
\* of the moment they were started.
NextPageSize ==
    \/ \E t \in Tables : KeyOpenTable(t)
    \/ KeyLeaveTable
    \/ KeyPageSizeUp
    \/ KeyPageSizeDown
    \/ KeyNextPage
    \/ \E i \in OverlapCmds : Deliver(i)

SpecPageSize == InitTables /\ [][NextPageSize]_vars

\* SpecTablesFair: SpecTables where the program loop delivers every message
\* a closure has returned.
SpecTablesFair ==
    SpecTables /\ \A i \in OverlapCmds : WF_vars(Deliver(i))

\* ------------------------------------------------------------ properties
Started(i) == ex[i].pc # "idle"
Done(i) == ex[i].pc = "done"

\* The items of a sequence of applied pages, in page order.
RECURSIVE ItemsOf(_)
ItemsOf(pages) ==
    IF pages = <<>> THEN <<>> ELSE pages[1].page.Items \o ItemsOf(Tail(pages))

\* The position a call has read up to after its applied pages.
ReadUpTo(e) ==
    IF e.pages = <<>> THEN e.startKey
    ELSE e.pages[Len(e.pages)].from + e.pages[Len(e.pages)].page.ScannedCount

\* The records the filter keeps among from+1 .. to, in store order.
Kept(filter, from, to) == SelectSeq(Range(from + 1, to), LAMBDA r : Matches(filter, r))

\* Page j of a call is a page at which its loop has to stop.
StopAt(e, j) ==
    \/ Len(ItemsOf(SubSeq(e.pages, 1, j))) >= e.targetCount
    \/ e.pages[j].page.LastEvaluatedKey = Nil

\* The context of the call never ended and none of its reads failed.
Undisturbed(e) == ~e.ctxDone /\ ~e.failed

IsPrefix(s, t) == Len(s) <= Len(t) /\ SubSeq(t, 1, Len(s)) = s

NoDuplicates(s) == \A a, b \in 1 .. Len(s) : s[a] = s[b] => a = b

\* C1: with the context never ended and no read failed, the call returns
\* with TimedOut=false exactly after the first page at which the item count
\* is >= targetCount or the cursor is absent: no earlier page is such a page,
\* and once such a page is applied the call has returned (no further read).
C1_StopsAtFirstStopPage ==
    \A i \in Cmds :
        LET e == ex[i] IN
        (Started(i) /\ Undisturbed(e)) =>
            /\ \A j \in 1 .. Len(e.pages) :
                 StopAt(e, j) =>
                    /\ j = Len(e.pages)
                    /\ e.pc = "done"
                    /\ ~e.result.isErr
                    /\ ~e.result.TimedOut
            /\ e.pc = "done" => (e.pages # <<>> /\ StopAt(e, Len(e.pages)))

C1_Witness ==
    \E i \in Cmds :
        /\ Done(i) /\ Undisturbed(ex[i])
        /\ Len(ex[i].pages) >= 2
        /\ ex[i].result.LastEvaluatedKey # Nil
        /\ ~ex[i].result.TimedOut

\* C2 (as stated): the items of a call from the nil cursor with target N that
\* stopped at a timeout, followed by the items of a call from the returned
\* cursor with target M, are the items of one undisturbed call from the nil
\* cursor with target N+M.
C2_ResumeEqualsSumTarget ==
    (caller.stage = "run2" /\ Done(1) /\ Undisturbed(ex[1])) =>
        Concat(caller.first.Items, ex[1].result.Items)
            = Run(caller.target1 + caller.target2, Nil, ex[1].filter).Items

\* C2 (amended): the two calls together return a duplicate-free prefix of the
\* items of the undisturbed call with target N+M, namely the kept records
\* from the start of the collection up to the position the second call read
\* to; the second call counts only its own items, so for M >= 1 they are the
\* items of an undisturbed call with target k+M, k the items of the first call.
C2_ResumeIsPrefix ==
    (caller.stage = "run2" /\ Done(1) /\ Undisturbed(ex[1])) =>
        LET both == Concat(caller.first.Items, ex[1].result.Items)
            k == Len(caller.first.Items)
        IN  /\ (caller.target1 >= 1 => k < caller.target1)
            /\ NoDuplicates(both)
            /\ both = Kept(ex[1].filter, Nil, ReadUpTo(ex[1]))
            /\ IsPrefix(both, Run(caller.target1 + caller.target2, Nil, ex[1].filter).Items)
            /\ caller.target2 >= 1 =>
                 both = Run(k + caller.target2, Nil, ex[1].filter).Items

C2_Witness ==
    /\ caller.stage = "run2" /\ Done(1) /\ Undisturbed(ex[1])
    /\ caller.first.Items # <<>>
    /\ ex[1].result.Items # <<>>
    /\ ex[1].result.LastEvaluatedKey # Nil
    /\ caller.target2 >= 1

\* C3: every result of the call has HasMore = (LastEvaluatedKey != nil).
C3_HasMoreIffCursor ==
    \A i \in Cmds :
        (Done(i) /\ ~ex[i].result.isErr) =>
            (ex[i].result.HasMore <=> ex[i].result.LastEvaluatedKey # Nil)

\* C4 (as stated): when the context ends while a page read is in flight,
\* that page is still applied and the call then returns TimedOut=true (read
\* here as: at its next check, so a page that ends the loop does not count
\* against the statement).
C4_InFlightPageApplied ==
    \A i \in Cmds :
        LET e == ex[i] IN
        (Done(i) /\ e.firedAt = "read") =>
            /\ ~e.result.isErr
            /\ Len(e.pages) = e.firedPages + 1
            /\ (e.result.TimedOut \/ StopAt(e, Len(e.pages)))

\* C4 (amended): when the context ends while a page read is in flight, the
\* call returns a result, never an error, and the page in flight is applied
\* whole or not at all: either the read completed, its items, scanned count
\* and cursor are all in the result, and the call returns TimedOut=true at
\* the next check unless that page ended the loop; or the read was given up,
\* and the call returns TimedOut=true with the items, count and cursor of the
\* pages before it.
C4_InFlightPageWholeOrDropped ==
    \A i \in Cmds :
        LET e == ex[i]
            r == e.result
        IN
        (Done(i) /\ e.firedAt = "read") =>
            /\ ~r.isErr
            /\ r.Items = ItemsOf(e.pages)
            /\ r.TotalScanned = SumScanned(e.pages)
            /\ r.LastEvaluatedKey =
                 (IF e.pages = <<>> THEN e.startKey
                  ELSE e.pages[Len(e.pages)].page.LastEvaluatedKey)
            /\ \/ /\ ~e.failed
                  /\ Len(e.pages) = e.firedPages + 1
                  /\ (r.TimedOut \/ StopAt(e, Len(e.pages)))
               \/ /\ e.failed
                  /\ Len(e.pages) = e.firedPages
                  /\ r.TimedOut

C4_Witness ==
    \E i \in Cmds :
        /\ Done(i) /\ ex[i].firedAt = "read" /\ ex[i].failed
        /\ ex[i].firedPages >= 1
        /\ ex[i].result.Items # <<>>

\* C5: a call whose context ended returns a result, never an error; a
\* result with TimedOut=true holds the items of the pages completed before
\* the stop, in page order, and the cursor of the last of them (the start
\* cursor when none completed): the kept records between the start cursor and
\* the returned cursor, each once.
C5_TimeoutKeepsCompletedPages ==
    \A i \in Cmds :
        LET e == ex[i]
            r == e.result
        IN
        /\ (Done(i) /\ e.ctxDone) =>
              /\ ~r.isErr
              /\ (r.TimedOut \/ (~e.failed /\ e.pages # <<>> /\ StopAt(e, Len(e.pages))))
        /\ (Done(i) /\ r.TimedOut) =>
              /\ e.ctxDone
              /\ r.Items = ItemsOf(e.pages)
              /\ r.LastEvaluatedKey =
                   (IF e.pages = <<>> THEN e.startKey
                    ELSE e.pages[Len(e.pages)].page.LastEvaluatedKey)
              /\ r.LastEvaluatedKey = ReadUpTo(e)
              /\ r.Items = Kept(e.filter, e.startKey, r.LastEvaluatedKey)

C5_Witness ==
    \E i \in Cmds :
        /\ Done(i) /\ ex[i].result.TimedOut
        /\ Len(ex[i].pages) >= 2
        /\ ex[i].result.Items # <<>>

\* C7: an undisturbed call from the nil cursor without filter and with a
\* target above the number of records returns every record once, in store
\* order, with no cursor, HasMore=false and TimedOut=false.
C7_ScanExhaustion ==
    \A i \in Cmds :
        LET e == ex[i] IN
        (Done(i) /\ Undisturbed(e) /\ e.startKey = Nil /\ e.filter = NoFilter
                 /\ e.targetCount > NRec) =>
            /\ ~e.result.isErr
            /\ e.result.Items = Range(1, NRec)
            /\ e.result.LastEvaluatedKey = Nil
            /\ ~e.result.HasMore
            /\ ~e.result.TimedOut

C7_Witness ==
    \E i \in Cmds :
        /\ Done(i) /\ Undisturbed(ex[i]) /\ ex[i].startKey = Nil
        /\ ex[i].filter = NoFilter /\ ex[i].targetCount > NRec
        /\ Len(ex[i].pages) >= 2

\* An undisturbed call from the nil cursor on a collection that holds more
\* than targetCount records the filter keeps, returned.
CutoffCase(i) ==
    /\ Done(i) /\ Undisturbed(ex[i]) /\ ex[i].startKey = Nil
    /\ Len(Kept(ex[i].filter, Nil, NRec)) > ex[i].targetCount

\* The items of the call are those up to the end of the first page at which
\* the count reaches targetCount.
UpToFirstReachingPage(e) ==
    /\ e.pages # <<>>
    /\ Len(e.result.Items) >= e.targetCount
    /\ \A j \in 1 .. Len(e.pages) - 1 : Len(ItemsOf(SubSeq(e.pages, 1, j))) < e.targetCount
    /\ e.result.Items = Kept(e.filter, Nil, ReadUpTo(e))

C6_ReadFailureIsError ==
    \A i \in Cmds :
        (Done(i) /\ ex[i].failed /\ ~ex[i].ctxDone) =>
            /\ ex[i].result = ErrResult
            /\ cmd[i].stage = "sent" =>
                 (cmd[i].msg.type = "errMsg" /\ cmd[i].msg.result = NoResult)

C6_Witness ==
    \E i \in Cmds :
        /\ Done(i) /\ ex[i].failed /\ ~ex[i].ctxDone
        /\ ex[i].allItems # <<>>
        /\ cmd[i].stage = "sent"
        /\ cmd[i].kind = "continueScan"

\* C9: TotalScanned of a result is the sum of the ScannedCount of exactly
\* the pages whose items are in Items; the total of a message of a resumed
\* scan, and the total the session stores for the next resume, are the sum
\* of the ScannedCount of all pages read over all invocations of the scan.
C9_TotalScannedIsSumOfPages ==
    /\ \A i \in Cmds :
         /\ (Done(i) /\ ~ex[i].result.isErr) =>
               /\ ex[i].result.Items = ItemsOf(ex[i].pages)
               /\ ex[i].result.TotalScanned = SumScanned(ex[i].pages)
         /\ (cmd[i].stage = "sent" /\ cmd[i].msg.type = "continuousScanMsg") =>
               cmd[i].msg.result.TotalScanned = cmd[i].prior + SumScanned(ex[i].pages)
    /\ m.view = "viewConfirmContinueScan" => m.scanTotalScanned = m.total

C9_Witness ==
    /\ m.view = "viewConfirmContinueScan"
    /\ m.resumes >= 2
    /\ m.scanTotalScanned >= 2
    /\ m.scanTotalScanned > Len(m.items)

\* The goroutines that hold a slot of the semaphore: between their send to
\* sem and their deferred receive from it.
Holding == {r \in Regions :
              disc.probe[r].pc \in {"config", "list", "lock", "append", "store", "unlock",
                                    "release"}}

\* The goroutines constructing their client or performing the listing.
Probing == {r \in Regions : disc.probe[r].pc \in {"config", "list"}}

\* C10: one probe goroutine is launched per catalog region, and at every
\* instant at most SemCap probes hold a semaphore slot, so at most SemCap are
\* constructing a client or performing the listing.
C10_BoundedProbes ==
    /\ \A r \in Regions :
         /\ disc.launched[r] <= 1
         /\ disc.launched[r] = 1 <=> disc.probe[r].pc # "none"
         /\ disc.main \in {"wait", "returned"} => disc.launched[r] = 1
    /\ Cardinality(Holding) <= SemCap
    /\ Cardinality(Probing) <= SemCap
    /\ disc.sem = Cardinality(Holding)

\* Every region has its goroutine, SemCap of them are probing and another
\* one is blocked in its send to sem.
C10_Witness ==
    /\ disc.main = "wait"
    /\ Cardinality(Probing) = SemCap
    /\ \E r \in Regions : disc.probe[r].pc = "acquire"

\* The regions whose probe listed at least one table name.
Found == {r \in Regions : disc.probe[r].outcome = "listed" /\ disc.probe[r].tables > 0}

\* The regions whose probe failed, constructing its client or listing.
Failed == {r \in Regions : disc.probe[r].outcome \in {"configError", "listError"}}

\* The positions of list at which the entry is for region r.
EntriesOf(list, r) == {k \in 1 .. Len(list) : list[k].Region = r}

\* The goroutines between mu.Lock() and mu.Unlock().
InCritical == {r \in Regions : disc.probe[r].pc \in {"append", "store", "unlock"}}

\* C11: the call has returned only when every launched probe has completed,
\* and the list it returns holds the entry of every probe that found tables,
\* whenever that probe finished.
C11_ReturnsAfterAllProbes ==
    disc.main = "returned" =>
        /\ \A r \in Regions : disc.launched[r] = 1 /\ disc.probe[r].pc = "done"
        /\ disc.wg = 0
        /\ \A r \in Found : EntriesOf(disc.returned, r) # {}
        /\ disc.returned = disc.results

C11_Witness ==
    /\ disc.main = "returned"
    /\ Len(disc.returned) >= 2
    /\ disc.returned[1].Region > disc.returned[2].Region
    /\ Failed # {}

\* C12: whatever probes fail, the call returns a nil error and a list of
\* exactly the regions whose probe succeeded with at least one table name;
\* a failed probe adds nothing to the list and gives its semaphore slot back.
C12_FailedProbesContributeNothing ==
    /\ \A r \in Failed :
         /\ EntriesOf(disc.results, r) = {}
         /\ disc.probe[r].pc \in {"release", "wgdone", "done"}
    /\ disc.sem = Cardinality(Holding)
    /\ disc.main = "returned" =>
         /\ disc.err = "nil"
         /\ disc.sem = 0
         /\ {disc.returned[k].Region : k \in 1 .. Len(disc.returned)} = Found

C12_Witness ==
    /\ disc.main = "returned"
    /\ \E r \in Regions : disc.probe[r].outcome = "configError"
    /\ \E r \in Regions : disc.probe[r].outcome = "listError"
    /\ disc.returned # <<>>

\* C13: at most one probe is between mu.Lock() and mu.Unlock(), and it is
\* the holder of the mutex; the returned list holds one RegionInfo for each
\* region that listed at least one table and none for any other, each with
\* TableCount the number of its table names, at least 1.
C13_AppendsAreExclusive ==
    /\ Cardinality(InCritical) <= 1
    /\ \A r \in InCritical : disc.mu = r
    /\ \A k \in 1 .. Len(disc.results) :
         /\ disc.results[k].TableCount = Len(disc.results[k].Tables)
         /\ disc.results[k].TableCount >= 1
         /\ disc.results[k].Tables
              = TableNames(disc.results[k].Region, disc.probe[disc.results[k].Region].tables)
    /\ disc.main = "returned" =>
         \A r \in Regions :
            Cardinality(EntriesOf(disc.returned, r)) = (IF r \in Found THEN 1 ELSE 0)

\* One probe is inside its append while another waits for the mutex and a
\* third has already appended.
C13_Witness ==
    /\ \E r \in Regions : disc.probe[r].pc = "store"
    /\ \E r \in Regions : disc.probe[r].pc = "lock"
    /\ disc.results # <<>>

\* ------------------------------------------- properties of BuildExpression
\* The conditions with a name that is not blank; those of them that are kept
\* (rendered); those of them that supply the value their operator needs.
Named(conds) == {i \in 1 .. Len(conds) : TrimSpace(conds[i].AttributeName) # <<>>}

SuppliesValue(c) == NeedsValue(c.Operator) /\ TrimSpace(c.AttributeValue) # <<>>

Valued(conds) == {i \in Named(conds) : SuppliesValue(conds[i])}

KeptConds(conds) ==
    {i \in Named(conds) : ~NeedsValue(conds[i].Operator) \/ SuppliesValue(conds[i])}

\* The digits that follow position k of text.
RECURSIVE DigitRun(_, _)
DigitRun(text, k) ==
    IF k <= Len(text) /\ IsDigit(text[k]) THEN <<text[k]>> \o DigitRun(text, k + 1) ELSE <<>>

\* The numbers of the placeholders with this prefix in text, left to right.
RECURSIVE RefsFrom(_, _, _)
RefsFrom(text, prefix, k) ==
    IF k + Len(prefix) - 1 > Len(text) THEN <<>>
    ELSE IF SubSeq(text, k, k + Len(prefix) - 1) = prefix
         THEN <<DigitRun(text, k + Len(prefix))>> \o RefsFrom(text, prefix, k + 1)
         ELSE RefsFrom(text, prefix, k + 1)

NameRefs(text) == RefsFrom(text, <<"#", "a", "t", "t", "r">>, 1)
ValueRefs(text) == RefsFrom(text, <<":", "v", "a", "l">>, 1)

\* The pieces of text between the occurrences of sep.
RECURSIVE SplitAll(_, _)
SplitAll(text, sep) ==
    IF Occurrences(text, sep) = {} THEN <<text>>
    ELSE LET k == CHOOSE x \in Occurrences(text, sep) :
                     \A y \in Occurrences(text, sep) : x <= y
         IN  <<SubSeq(text, 1, k - 1)>> \o SplitAll(SubSeq(text, k + Len(sep), Len(text)), sep)

\* The elements of a set of numbers in increasing order.
RECURSIVE Ascending(_)
Ascending(set) ==
    IF set = {} THEN <<>>
    ELSE LET x == CHOOSE a \in set : \A b \in set : a <= b
         IN  <<x>> \o Ascending(set \ {x})

\* C14 (as stated): the names map has one entry per condition with a
\* non-blank name, the values map one entry per such condition that needs
\* and supplies a value.
C14_MapSizes ==
    fb.built =>
        /\ MapLen(fb.out.names) = Cardinality(Named(fb.Conditions))
        /\ MapLen(fb.out.values) = Cardinality(Valued(fb.Conditions))

\* C14 (amended): when at least one condition is rendered the names map has
\* one entry per condition with a non-blank name (the dropped ones included)
\* and the values map one entry per such condition that needs and supplies a
\* value; when no condition is rendered both maps are nil, whatever the
\* number of named conditions.
C14_MapSizesWhenRendered ==
    fb.built =>
        IF KeptConds(fb.Conditions) = {}
        THEN fb.out.nilMaps /\ MapLen(fb.out.names) = 0 /\ MapLen(fb.out.values) = 0
        ELSE /\ ~fb.out.nilMaps
             /\ MapLen(fb.out.names) = Cardinality(Named(fb.Conditions))
             /\ MapLen(fb.out.values) = Cardinality(Valued(fb.Conditions))

C14_Witness ==
    /\ fb.built
    /\ Cardinality(Valued(fb.Conditions)) >= 1
    /\ Cardinality(Named(fb.Conditions)) > Cardinality(KeptConds(fb.Conditions))
    /\ MapLen(fb.out.names) >= 2

\* C15: every #attrN of the text is a key of the names map and not of the
\* values map, every :valN of the text a key of the values map and not of
\* the names map.
C15_PlaceholdersAreKeys ==
    fb.built =>
        /\ \A j \in 1 .. Len(NameRefs(fb.out.expr)) :
             LET ph == <<"#", "a", "t", "t", "r">> \o NameRefs(fb.out.expr)[j]
             IN  ph \in DOMAIN fb.out.names /\ ph \notin DOMAIN fb.out.values
        /\ \A j \in 1 .. Len(ValueRefs(fb.out.expr)) :
             LET ph == <<":", "v", "a", "l">> \o ValueRefs(fb.out.expr)[j]
             IN  ph \in DOMAIN fb.out.values /\ ph \notin DOMAIN fb.out.names
        /\ Len(NameRefs(fb.out.expr)) = Cardinality(KeptConds(fb.Conditions))
        /\ Len(ValueRefs(fb.out.expr)) = Cardinality(Valued(fb.Conditions))

C15_Witness ==
    /\ fb.built
    /\ Len(NameRefs(fb.out.expr)) >= 2
    /\ Len(ValueRefs(fb.out.expr)) >= 1
    /\ Len(ValueRefs(fb.out.expr)) < Len(NameRefs(fb.out.expr))

\* C16: the value placeholders of the text, left to right, are :val0, :val1,
\* ... without a gap; the name index of a clause is never below its value
\* index and exceeds it by the number of named conditions before it that
\* supplied no value.
C16_ValueCounterHasNoGap ==
    fb.built =>
        /\ ValueRefs(fb.out.expr)
             = [j \in 1 .. Cardinality(Valued(fb.Conditions)) |-> Itoa(j - 1)]
        /\ \A j \in 1 .. Len(fb.out.clauses) :
             LET c == fb.out.clauses[j] IN
             c.value >= 0 =>
                /\ c.name >= c.value
                /\ c.name - c.value
                     = Cardinality({i \in Named(fb.Conditions) \ Valued(fb.Conditions) :
                                      i < c.cond})

C16_Witness ==
    /\ fb.built
    /\ \E j \in 1 .. Len(fb.out.clauses) :
         /\ fb.out.clauses[j].value >= 0
         /\ fb.out.clauses[j].name > fb.out.clauses[j].value
         /\ fb.Conditions[1].Operator \in {OpExists, OpNotExists}
    /\ Len(ValueRefs(fb.out.expr)) >= 1

\* C17: a condition with a blank name reserves no placeholder; a named
\* condition that is dropped keeps its index: the name index of every
\* rendered clause is the number of named conditions before its condition,
\* so the indices of the text are strictly increasing in condition order.
C17_NameIndicesNotReused ==
    fb.built =>
        LET refs == NameRefs(fb.out.expr)
            kept == Ascending(KeptConds(fb.Conditions))
        IN  /\ Len(refs) = Len(kept)
            /\ \A j \in 1 .. Len(refs) :
                 Atoi(refs[j]) = Cardinality({i \in Named(fb.Conditions) : i < kept[j]})
            /\ \A j \in 1 .. Len(refs) - 1 : Atoi(refs[j]) < Atoi(refs[j + 1])

C17_Witness ==
    /\ fb.built
    /\ Len(fb.Conditions) >= 2
    /\ 1 \in Named(fb.Conditions) \ KeptConds(fb.Conditions)
    /\ NameRefs(fb.out.expr) = <<<<"1">>>>

\* The clause of kept condition i: its operator's text over the placeholders
\* numbered by the named, and by the valued, conditions before it.
ExpectedClause(conds, i) ==
    RenderClause(conds[i].Operator,
                 <<"#", "a", "t", "t", "r">> \o Itoa(Cardinality({k \in Named(conds) : k < i})),
                 <<":", "v", "a", "l">> \o Itoa(Cardinality({k \in Valued(conds) : k < i})))

\* C18: with no condition, or only conditions with a blank name or an empty
\* needed value, the result is the absent expression; otherwise the text is
\* the clauses of the kept conditions, in condition order, separated by
\* " AND ".
C18_EmptyInputLaw ==
    fb.built =>
        LET kept == Ascending(KeptConds(fb.Conditions)) IN
        IF kept = <<>>
        THEN /\ fb.out.expr = <<>>
             /\ fb.out.nilMaps
             /\ MapLen(fb.out.names) = 0 /\ MapLen(fb.out.values) = 0
        ELSE /\ fb.out.expr # <<>>
             /\ SplitAll(fb.out.expr, <<" ", "A", "N", "D", " ">>)
                  = [j \in 1 .. Len(kept) |-> ExpectedClause(fb.Conditions, kept[j])]

C18_Witness ==
    /\ fb.built
    /\ Len(fb.Conditions) >= 2
    /\ Cardinality(KeptConds(fb.Conditions)) >= 2
    /\ Named(fb.Conditions) # KeptConds(fb.Conditions) \/ Len(fb.Conditions) = 2

\* The one condition of a list of one kept, valued condition.
SingleValued ==
    fb.built /\ Len(fb.Conditions) = 1 /\ Valued(fb.Conditions) = {1}

\* An optionally signed string of decimal digits.
IsDecimal(s) ==
    LET body == IF s # <<>> /\ Head(s) \in {"+", "-"} THEN Tail(s) ELSE s
    IN  body # <<>> /\ \A k \in 1 .. Len(body) : IsDigit(body[k])

DecimalValue(s) ==
    IF Head(s) = "-" THEN 0 - Atoi(Tail(s))
    ELSE IF Head(s) = "+" THEN Atoi(Tail(s)) ELSE Atoi(s)

FirstKept(conds) == Ascending(KeptConds(conds))[1]

\* The partition keys of the global indexes of a schema.
GSIKeys(ti) == {ti.GSIs[g].PartitionKey : g \in 1 .. Len(ti.GSIs)}

Planned == fb.built /\ fb.plan.kind # "none"

Attr0IsFirstClause(conds) ==
    /\ KeptConds(conds) # {}
    /\ \A i \in Named(conds) : FirstKept(conds) <= i

\* C21: when the first clause is an equality on an attribute that is the
\* table's partition key, the lookup is on the table (no index name) even if
\* an index has the same partition key; when it is not the table's partition
\* key but is the partition key of some index, the lookup names the first
\* such index in catalog order and no later one.
C21_IndexTieBreak ==
    (/\ Planned /\ ~fb.tableInfo.isNil
     /\ Attr0IsFirstClause(fb.Conditions)
     /\ fb.Conditions[FirstKept(fb.Conditions)].Operator = OpEquals) =>
        LET attr == TrimSpace(fb.Conditions[FirstKept(fb.Conditions)].AttributeName)
            gsis == fb.tableInfo.GSIs
        IN  /\ attr = fb.tableInfo.PartitionKey =>
                  fb.plan.kind = "query" /\ fb.plan.IndexName = ""
            /\ (attr # fb.tableInfo.PartitionKey /\ attr \in GSIKeys(fb.tableInfo)) =>
                  /\ fb.plan.kind = "query"
                  /\ \E g \in 1 .. Len(gsis) :
                        /\ gsis[g].PartitionKey = attr
                        /\ \A h \in 1 .. (g - 1) : gsis[h].PartitionKey # attr
                        /\ fb.plan.IndexName = gsis[g].Name

C21_Witness ==
    /\ Planned
    /\ fb.plan.kind = "query"
    /\ fb.plan.IndexName = "byA1"
    /\ fb.tableInfo.PartitionKey \in GSIKeys(fb.tableInfo)

\* C22: a key lookup is planned only when the clause of #attr0 is the first
\* rendered clause, is an equality, and names a partition key of the table
\* or of an index; with any other operator on the first rendered condition
\* the read is a full scan even when its attribute is a partition key.
C22_LookupOnlyFromFirstEquality ==
    (Planned /\ KeptConds(fb.Conditions) # {}) =>
        LET c == fb.Conditions[FirstKept(fb.Conditions)]
            attr == TrimSpace(c.AttributeName)
        IN  /\ fb.plan.kind = "query" =>
                  /\ ~fb.tableInfo.isNil
                  /\ Attr0IsFirstClause(fb.Conditions)
                  /\ c.Operator = OpEquals
                  /\ attr \in {fb.tableInfo.PartitionKey} \cup GSIKeys(fb.tableInfo)
                  /\ fb.plan.KeyAttribute = attr
            /\ c.Operator # OpEquals => fb.plan.kind = "continuousScan"
            /\ ~Attr0IsFirstClause(fb.Conditions) => fb.plan.kind = "continuousScan"

C22_Witness ==
    /\ Planned
    /\ Len(fb.Conditions) = 2
    /\ KeptConds(fb.Conditions) = {1, 2}
    /\ fb.Conditions[1].Operator = OpLessOrEqual
    /\ fb.Conditions[2].Operator = OpEquals
    /\ TrimSpace(fb.Conditions[1].AttributeName) = fb.tableInfo.PartitionKey
    /\ TrimSpace(fb.Conditions[2].AttributeName) = fb.tableInfo.PartitionKey
    /\ fb.plan.kind = "continuousScan"

\* C23: in a key lookup the residual filter is the compiled text after its
\* first " AND " (the clauses of conditions 2..N, placeholders unchanged),
\* absent for a single clause; every placeholder the key condition or the
\* residual filter refers to is a key of the maps of the query, with the
\* name or value the compiler gave it.
C23_ResidualFilter ==
    (Planned /\ fb.plan.kind = "query") =>
        LET residual == fb.plan.FilterExpression
            key == fb.plan.KeyConditionExpression
            kept == Ascending(KeptConds(fb.Conditions))
            later == [j \in 1 .. (Len(kept) - 1) |-> ExpectedClause(fb.Conditions, kept[j + 1])]
        IN  /\ residual = Join(later, <<" ", "A", "N", "D", " ">>)
            /\ Len(kept) = 1 => residual = <<>>
            /\ Len(kept) > 1 =>
                  fb.out.expr = ExpectedClause(fb.Conditions, kept[1])
                                   \o <<" ", "A", "N", "D", " ">> \o residual
            /\ <<"#", "p", "k">> \in DOMAIN fb.plan.Names
            /\ fb.plan.Names[<<"#", "p", "k">>] = fb.plan.KeyAttribute
            /\ \A j \in 1 .. Len(ValueRefs(key)) :
                 LET ph == <<":", "v", "a", "l">> \o ValueRefs(key)[j]
                 IN  /\ ph \in DOMAIN fb.plan.Values
                     /\ ph \in DOMAIN fb.out.values
                     /\ fb.plan.Values[ph] = fb.out.values[ph]
            /\ Len(ValueRefs(key)) = 1
            /\ \A j \in 1 .. Len(NameRefs(residual)) :
                 LET ph == <<"#", "a", "t", "t", "r">> \o NameRefs(residual)[j]
                 IN  ph \in DOMAIN fb.plan.Names /\ fb.plan.Names[ph] = fb.out.names[ph]
            /\ \A j \in 1 .. Len(ValueRefs(residual)) :
                 LET ph == <<":", "v", "a", "l">> \o ValueRefs(residual)[j]
                 IN  ph \in DOMAIN fb.plan.Values /\ fb.plan.Values[ph] = fb.out.values[ph]

C23_Witness ==
    /\ Planned
    /\ fb.plan.kind = "query"
    /\ Len(fb.out.clauses) = 3
    /\ Len(NameRefs(fb.plan.FilterExpression)) = 2
    /\ Len(ValueRefs(fb.plan.FilterExpression)) = 1

\* C24: in every key lookup the key condition is "#pk = " followed by the
\* value placeholder that stands next to #attr0 in the first rendered
\* clause, and the value sent under it is the compiled value of that
\* condition, whatever conditions were skipped or dropped and however many
\* other values the filter holds.
C24_KeyPlaceholderIsPaired ==
    (Planned /\ fb.plan.kind = "query") =>
        LET first == FirstKept(fb.Conditions)
            c == fb.Conditions[first]
            firstClause == SplitAll(fb.out.expr, <<" ", "A", "N", "D", " ">>)[1]
        IN  /\ Len(NameRefs(firstClause)) = 1 /\ Len(ValueRefs(firstClause)) = 1
            /\ NameRefs(firstClause)[1] = <<"0">>
            /\ LET vp == <<":", "v", "a", "l">> \o ValueRefs(firstClause)[1]
               IN  /\ firstClause = <<"#", "a", "t", "t", "r", "0", " ", "=", " ">> \o vp
                   /\ fb.plan.KeyConditionExpression = <<"#", "p", "k", " ", "=", " ">> \o vp
                   /\ vp \in DOMAIN fb.plan.Values
                   /\ fb.plan.Values[vp] = CompiledValue(c.Operator, TrimSpace(c.AttributeValue))
                   /\ fb.plan.Values[vp] = fb.out.values[vp]

C24_Witness ==
    /\ Planned
    /\ fb.plan.kind = "query"
    /\ MapLen(fb.out.values) >= 2
    /\ FirstKept(fb.Conditions) > 1

\* The attributes a lookup can use as key under a schema.
KnownPartitionKeys(ti) == IF ti.isNil THEN {} ELSE {ti.PartitionKey} \cup GSIKeys(ti)

\* C25: when the filter is non-empty and its first rendered condition is not
\* an equality on the partition key of the table or of an index, the read is
\* the continuous scan, given the whole compiled text and both maps as
\* compiled, starting from the nil cursor under the three-minute deadline.
C25_FullScanFallback ==
    (Planned /\ KeptConds(fb.Conditions) # {}) =>
        LET c == fb.Conditions[FirstKept(fb.Conditions)] IN
        ~(/\ c.Operator = OpEquals
          /\ TrimSpace(c.AttributeName) \in KnownPartitionKeys(fb.tableInfo)) =>
            /\ fb.plan.kind = "continuousScan"
            /\ fb.plan.FilterExpression = fb.out.expr
            /\ fb.plan.FilterExpression # <<>>
            /\ fb.plan.Names = fb.out.names
            /\ fb.plan.Values = fb.out.values
            /\ fb.plan.StartKey = Nil
            /\ fb.plan.timeoutMinutes = scanTimeoutMinutes
            /\ fb.plan.IndexName = "" /\ fb.plan.KeyConditionExpression = <<>>

C25_Witness ==
    /\ Planned
    /\ ~fb.tableInfo.isNil
    /\ fb.plan.kind = "continuousScan"
    /\ Len(fb.out.clauses) >= 2
    /\ MapLen(fb.plan.Values) >= 1
    /\ fb.Conditions[FirstKept(fb.Conditions)].Operator = OpEquals
    /\ TrimSpace(fb.Conditions[FirstKept(fb.Conditions)].AttributeName)
          \notin KnownPartitionKeys(fb.tableInfo)

\* ------------------------------------------- properties of a key lookup
\* A key lookup has returned its result.
QueryReturned(i) == cmd[i].stage = "sent" /\ cmd[i].msg.type = "queryResultMsg"

\* C26 (as stated): a key lookup keeps reading pages until it holds the
\* target number of items or the cursor is absent (it runs under no
\* deadline), so its result never has fewer items than the target together
\* with a cursor.
C26_LookupReadsUntilDone ==
    \A i \in Cmds :
        QueryReturned(i) =>
            \/ Len(cmd[i].msg.result.Items) >= m.pageSize
            \/ cmd[i].msg.result.LastEvaluatedKey = Nil

\* C26 (amended): a key lookup is one page read from the start of the key
\* range with the page size as Limit: its result is that page's items,
\* counts and cursor, whatever the number of items, and the handled result
\* is shown in the table view with the page's cursor as m.lastKey and no
\* continue decision.
C26_LookupReadsOnePage ==
    /\ \A i \in Cmds :
          QueryReturned(i) =>
              LET r == cmd[i].msg.result
                  page == ScanPage(Nil, m.pageSize, ResidualFilter(fb.plan))
              IN  /\ r.Items = page.Items
                  /\ r.ScannedCount = page.ScannedCount
                  /\ r.ScannedCount <= store.ext[Nil]
                  /\ r.LastEvaluatedKey = page.LastEvaluatedKey
                  /\ r.Count = Len(r.Items)
    /\ m.statusMsg.text = "Query returned" =>
          LET page == ScanPage(Nil, m.pageSize, ResidualFilter(fb.plan))
          IN  /\ m.items = page.Items
              /\ m.lastKey = page.LastEvaluatedKey
              /\ m.view = "viewTableData"
              /\ ~m.loading

C26_Witness ==
    /\ m.statusMsg.text = "Query returned"
    /\ m.lastKey # Nil
    /\ Len(m.items) < m.pageSize
    /\ \E r \in (m.lastKey + 1) .. NRec : Matches(ResidualFilter(fb.plan), r)

\* ------------------------------------- properties of overlapping reads
\* The calls of ScanTableContinuous that have started and not returned.
InFlight == {i \in DOMAIN ex : Running(ex[i])}

\* C27 (as stated): at most one call of ScanTableContinuous is in flight for
\* the session at any time.
C27_AtMostOneInFlight == Cardinality(InFlight) <= 1

\* ------------------------------------ properties of the continue decision
\* The decision view is shown over the rows of a result that timed out with
\* more to read, whose cursor and counts are stored.
DecisionShown ==
    m.view = "viewConfirmContinueScan" =>
        /\ m.statusMsg.timedOut /\ m.statusMsg.hasMore
        /\ m.statusMsg.found = Len(m.items)
        /\ m.scanItemsFound = Len(m.items)
        /\ m.scanLastKey = m.lastKey
        /\ m.scanTotalScanned = m.statusMsg.scanned

\* A step that answers the decision with yes: closure i starts continueScan.
AnswersYes(i) ==
    /\ m.view = "viewConfirmContinueScan" /\ m'.view = "viewTableData"
    /\ cmd[i].stage = "idle" /\ cmd'[i].stage = "running"

\* A step that answers the decision with no.
AnswersNo ==
    /\ m.view = "viewConfirmContinueScan" /\ m'.view = "viewTableData"
    /\ cmd' = cmd

\* A step that hands the message of a resumed scan to Model.Update.
ResumeDelivered(i) ==
    /\ cmd[i].kind = "continueScan" /\ cmd[i].stage = "sent"
    /\ cmd'[i].stage = "idle"

\* C28 (as stated): a result that timed out with more to read is shown with
\* the decision view, and the view keeps showing that result; yes starts ScanTableContinuous from the stored cursor with the same
\* filter and the target items found + page size, and its result is shown
\* as the old rows followed by the new ones; no keeps the rows; the rows
\* shown before an answer or before the resumed scan's message are a prefix
\* of the rows shown after it.  It holds while one closure runs at a time;
\* the message of an overlapping scan replaces the rows under the decision.
C28_DecisionKeepsRows ==
    /\ []DecisionShown
    /\ [][\A i \in DOMAIN cmd :
            /\ AnswersYes(i) =>
                  /\ cmd'[i].kind = "continueScan"
                  /\ ex'[i] = StartExec(m.scanItemsFound + m.pageSize, m.scanLastKey,
                                        m.filterExpr)
                  /\ m'.items = m.items
            /\ AnswersNo => m'.items = m.items
            /\ ResumeDelivered(i) =>
                  /\ IsPrefix(m.items, m'.items)
                  /\ cmd[i].msg.type = "continuousScanMsg" =>
                        m'.items = m.items \o ex[i].result.Items]_vars

\* A step that hands the error message of closure i to Model.Update.
ErrorDelivered(i) ==
    /\ cmd[i].stage = "sent" /\ cmd[i].msg.type = "errMsg"
    /\ cmd'[i].stage = "idle"

\* C29 (as stated): once the error message of a failed scan is handled an
\* error is reported, and when the failed scan was a resumed one the rows
\* accumulated for it and its stored cursor are no longer held.
C29_FailureDiscardsSession ==
    [][\A i \in Cmds :
          ErrorDelivered(i) =>
              /\ m'.err /\ m'.statusMsg.text = "Error"
              /\ cmd[i].kind = "continueScan" =>
                    /\ m'.items = <<>>
                    /\ m'.lastKey = Nil
                    /\ m'.scanLastKey = Nil]_vars

\* C30: once the discovery message is handled, the session reports that no
\* tables were found in any region exactly when the returned list is empty,
\* which is exactly when every probe failed or listed no table; otherwise no
\* error is set and the session connects to the region of the first entry of
\* the list, a region whose probe listed a table.
C30_NoTablesOnlyWhenEmpty ==
    disc.session.handled =>
        LET sess == disc.session IN
        /\ ~sess.loading
        /\ sess.discoveredRegions = disc.returned
        /\ (sess.err = "no DynamoDB tables found in any region") <=> (disc.returned = <<>>)
        /\ (disc.returned = <<>>) <=> (Found = {})
        /\ (Found = {}) <=>
              (\A r \in Regions : r \in Failed \/ disc.probe[r].tables = 0)
        /\ disc.returned = <<>> => sess.connectTo = 0
        /\ Found # {} =>
              /\ sess.err = "nil"
              /\ sess.connectTo \in Found
              /\ sess.connectTo = disc.returned[1].Region
              /\ sess.selectedRegion = sess.connectTo

C30_Witness ==
    /\ disc.session.handled
    /\ Failed # {}
    /\ Cardinality(Found) = 1
    /\ disc.session.connectTo \in Found
\* C40 (as stated): after any sequence of FilterBuilder operations from
\* NewFilterBuilder there is at least one condition, ActiveCondIdx names a
\* condition, ActiveField is 0, 1 or 2, every operator is one of the eleven
\* defined ones, and the value field is active only on a condition whose
\* operator takes a value.
C40_BuilderInvariant ==
    /\ Len(fb.Conditions) >= 1
    /\ fb.ActiveCondIdx \in 0 .. (Len(fb.Conditions) - 1)
    /\ fb.ActiveField \in {0, 1, 2}
    /\ \A i \in 1 .. Len(fb.Conditions) : fb.Conditions[i].Operator \in FilterOperators
    /\ fb.ActiveField = 2 => ActiveCondition.Operator \notin {OpExists, OpNotExists}

\* The part of C40 that holds: counts, indices and operators stay in range.
BuilderInRange ==
    /\ Len(fb.Conditions) >= 1
    /\ fb.ActiveCondIdx \in 0 .. (Len(fb.Conditions) - 1)
    /\ fb.ActiveField \in {0, 1, 2}
    /\ \A i \in 1 .. Len(fb.Conditions) : fb.Conditions[i].Operator \in FilterOperators

\* A step in which BuildExpression is called.
BuildCalled == fb'.calls = fb.calls + 1

\* A step in which the closure of scanTable plans its read.
ReadPlanned == fb.plan.kind = "none" /\ fb'.plan.kind # "none"

NextRequestKey(e) ==
    IF e.pages = <<>> THEN e.startKey ELSE e.pages[Len(e.pages)].page.LastEvaluatedKey

\* C32: the page requests of one call of ScanTableContinuous form a chain:
\* the first carries the caller's start cursor, each later one the cursor
\* the page before it returned, the request in flight (if any) the cursor of
\* the last page applied, and each carries the Limit 500 whatever the target.
C32_PagesAreSequential ==
    \A i \in Cmds :
        LET e == ex[i] IN
        /\ \A k \in 1 .. Len(e.pages) :
              /\ e.pages[k].page.ExclusiveStartKey =
                    IF k = 1 THEN e.startKey ELSE e.pages[k - 1].page.LastEvaluatedKey
              /\ e.pages[k].page.Limit = batchSize
        /\ Running(e) => e.lastKey = NextRequestKey(e)

\* A resumed call with a small target that has applied two pages and is
\* about to request a third.
C32_Witness ==
    \E i \in Cmds :
        /\ ex[i].startKey # Nil
        /\ Len(ex[i].pages) >= 2
        /\ ex[i].pc = "read"
        /\ ex[i].targetCount < batchSize

\* The member type that keeps the type of a compiled value.
MemberOf(v) ==
    CASE v.kind = "string" -> "S"
      [] v.kind = "number" -> "N"
      [] v.kind = "bool" -> "BOOL"
      [] v.kind = "null" -> "NULL"

\* C38 (as stated): every compiled value keeps its type when it is converted
\* for the store: a number becomes an N attribute, a boolean a BOOL, a string
\* an S and the null of the literal "null" a NULL attribute.
C38_ConversionKeepsType ==
    fb.converted =>
        \A k \in DOMAIN fb.out.values :
            fb.attrValues[k].member = MemberOf(fb.out.values[k])

\* The part of C38 that holds: numbers, booleans and strings keep their type
\* and their value.
ConversionKeepsNonNull ==
    fb.converted =>
        \A k \in DOMAIN fb.out.values :
            LET v == fb.out.values[k]
                a == fb.attrValues[k]
            IN  v.kind # "null" =>
                   /\ a.member = MemberOf(v)
                   /\ v.kind = "string" => a.Value = v.str
                   /\ v.kind = "bool" => a.Bool = v.bool
                   /\ v.kind = "number" /\ v.special = "" /\ v.num >= 0 => Atoi(a.Value) = v.num

\* C37: under a fair scheduler and with probe calls that return, every
\* launched probe gets a semaphore slot and ends, the slot of every probe
\* that ended was given back whichever way it ended, and the join completes:
\* the call returns, with the semaphore empty.
C37_DiscoveryTerminates ==
    /\ \A r \in Regions : <>(disc.probe[r].pc \notin {"none", "acquire"})
    /\ \A r \in Regions : <>(disc.probe[r].pc = "done")
    /\ [](\A r \in Regions : disc.probe[r].pc \in {"wgdone", "done"} => ~(r \in Holding))
    /\ []((\A r \in Regions : disc.probe[r].pc = "done") => disc.sem = 0)
    /\ <>(disc.main = "returned" /\ disc.sem = 0 /\ disc.wg = 0)

\* The call has returned after probes that ended in each way: a failed
\* configuration, a failed listing and an appended region.
C37_Witness ==
    /\ disc.main = "returned"
    /\ disc.sem = 0
    /\ \E r \in Regions : disc.probe[r].outcome = "configError"
    /\ \E r \in Regions : disc.probe[r].outcome = "listError"
    /\ disc.returned # <<>>

\* C39 (as stated): whatever "+" and "-" keys are pressed from the default
\* page size, the page size stays within the bounds the handlers test.
C39_PageSizeInBounds == 50 <= m.pageSize /\ m.pageSize <= 1000

\* The bounds that do hold, and the grid the page size moves on.
PageSizeRange ==
    /\ 50 <= m.pageSize /\ m.pageSize <= 1050
    /\ m.pageSize % 50 = 0

\* C35 (as stated): whenever scanTable plans a read with a non-empty filter,
\* the schema it consults is that of the table being read (or none): never
\* the schema of a table opened before.
C35_SchemaOfTableRead ==
    \A i \in DOMAIN cmd :
        (cmd[i].kind = "scanTable" /\ cmd[i].read.filter # NoFilter)
            => cmd[i].read.schema \in {"nil", cmd[i].read.table}

\* C33 (as stated): every cursor passed to a page read was returned by an
\* earlier read of the same table, of the same kind and with the same
\* filter.
C33_CursorGoesBackToItsRead ==
    \A i \in DOMAIN cmd :
        cmd[i].read.startKey # Nil
            => cmd[i].read.cursorOf =
                  <<cmd[i].read.table, cmd[i].read.kind, cmd[i].read.filter>>

\* A step in which the message of closure i is handed to Model.Update.
Delivered(i) == cmd[i].stage = "sent" /\ cmd'[i].stage = "idle"

\* C34 (as stated): a result message replaces the rows and the cursor of the
\* view only if its read was made for the current table with the current
\* filter.
C34_StaleResultNotApplied ==
    [][\A i \in DOMAIN cmd :
          (/\ Delivered(i)
           /\ cmd[i].msg.type \in {"scanResultMsg", "continuousScanMsg", "queryResultMsg"}
           /\ (m'.items # m.items \/ m'.lastKey # m.lastKey \/ m'.shown # m.shown))
             => /\ cmd[i].read.table = m.currentTable
                /\ cmd[i].read.filter = m.filterExpr]_vars

\* C36 (as stated): the message of every read of the table view is applied
\* to the model whatever view is shown when it arrives, and once loading is
\* true it becomes false again when the store has answered.
C36_EveryMessageApplied ==
    /\ [][\A i \in DOMAIN cmd :
             Delivered(i) => /\ ~m'.loading
                             /\ cmd[i].msg.type = "errMsg" => m'.err
                             /\ cmd[i].msg.type = "tableInfoMsg"
                                   => m'.tableInfo = cmd[i].msg.result.info
                             /\ cmd[i].msg.type \in {"scanResultMsg", "continuousScanMsg",
                                                      "queryResultMsg"}
                                   => m'.items = cmd[i].msg.result.Items]_vars
    /\ m.loading ~> ~m.loading

\* The second half of C36 alone: loading does not stay true.
LoadingEnds == m.loading ~> ~m.loading

================================================================================
